---- MODULE Spec2Model ----
(***************************************************************************)
(* State-machine model of the resilience core of asyncer:                  *)
(*   - CircuitBreaker            (circuit breaker / bulkhead file)         *)
(*   - bulkhead                  (circuit breaker / bulkhead file)         *)
(*   - semaphore, parallelLimit, sequence, raceSuccess, batch              *)
(*                               (src/concurrency.ts)                      *)
(*   - retryAsync, withTimeout, once, debounce   (src/async.ts)            *)
(* Each component has its own specification (SpecCB, SpecSem, ...); the    *)
(* variables of the other components stay unchanged under it.              *)
(*                                                                         *)
(* Scheduling model: JavaScript run-to-completion.  One action is one      *)
(* synchronous stretch of code: from a call (or from the resumption of an  *)
(* await) to the next await or to the return.  Tasks are AsyncTask values  *)
(* (() => Promise<T>): invoking one returns a promise, and the code after  *)
(* `await task()` runs in a later step, when that promise has settled.     *)
(***************************************************************************)
EXTENDS Integers, Naturals, Sequences, FiniteSets, TLC

VARIABLES
    \* ---- CircuitBreaker fields
    state,            \* 'CLOSED' | 'OPEN' | 'HALF_OPEN'
    failureCount,
    successCount,
    lastFailureTime,
    options,          \* failureThreshold, successThreshold, resetTimeout, shouldTrip
    \* ---- environment of the breaker
    now,              \* Date.now()
    inflight,         \* execute() calls suspended at `await task()`
    lastOp,           \* observer: the operation performed by the last step
    streak,           \* observer: qualifying failures since a fresh Closed start
    cbStep,           \* observer: the fields before the last step, and what the task raised in it
    cbAdmit,          \* observer: in-flight tasks admitted in an earlier period, probe successes
    \* ---- semaphore closure state
    limit,
    count,
    queue,            \* resolve callbacks of pending acquire() promises, by caller id
    \* ---- environment of the semaphore
    nextId,           \* id the next acquire() call gets (ids are in call order)
    resolved,         \* ids whose acquire() promise has been resolved
    waited,           \* observer: ids whose acquire() had to queue
    resolvedAt,       \* observer: id -> number of the release() that resolved it
    releaseCount,     \* observer: release() calls made so far
    outstanding,      \* observer: acquire() calls granted minus release() calls
    \* ---- parallelLimit(tasks, limit): arguments and locals
    plTasks,          \* tasks.length; the tasks are tasks[0] .. tasks[plTasks - 1]
    plLimit,
    currentIndex,
    results,          \* index -> value written, or Hole
    workers,          \* the runNext() calls: worker -> [pc, index]
    plOutcome,        \* the promise parallelLimit returned
    \* ---- environment of parallelLimit
    plInvoked,        \* observer: index -> number of times tasks[index] was invoked
    plOrder,          \* observer: the indices of the completed tasks, in completion order
    plFailed,         \* observer: the indices of the tasks that failed
    \* ---- bulkhead(options): options and closure state
    concurrency,
    maxQueue,         \* [finite, n]: a number, or Infinity (the default)
    activeCount,
    bhQueue,          \* the queued {resolve, reject, task} entries, by call id
    \* ---- environment of the bulkhead
    bhNext,           \* id the next call gets (ids are in arrival order)
    bhStatus,         \* call id -> none | running | queued | rejected | resolved | failed
    bhStartOrder,     \* observer: the ids of the calls whose task was invoked, in order
    bhEverQueued,     \* observer: the ids of the calls that were enqueued
    bhLast,           \* observer: the operation performed by the last step
    bhPromise,        \* call id -> the promise the call returned: [status, value]
    bhOwner,          \* invoked task (by call id) -> the call whose promise its outcome settles
    \* ---- retryAsync(fn, options): options and locals
    rtOptions,        \* retries, delay, backoffMultiplier, maxDelay, shouldRetry, onRetry
    attempt,
    currentDelay,
    lastError,
    rtPc,             \* idle | calling (await fn()) | sleeping (await sleep()) | resolved | rejected
    rtResult,         \* what the promise of retryAsync settled with
    \* ---- environment of retryAsync
    failsBefore,      \* fn fails this many times, then succeeds
    rtInvocations,    \* observer: number of fn() invocations
    rtThrown,         \* observer: the failures fn raised, in order
    rtRetryLog,       \* observer: the onRetry(error, n) calls, in order
    rtDelays,         \* observer: the sleep(ms) calls, in order
    \* ---- withTimeout(promise, ms, message): arguments and locals
    wtMs,
    wtMessage,        \* [given, text]: the optional message argument
    wtPromise,        \* the promise argument: [status, value]
    wtTimer,          \* the setTimeout timer: none | pending | fired | cleared
    wtPc,             \* idle | awaiting (await Promise.race) | settled
    wtOutcome,        \* the promise withTimeout returned
    \* ---- environment of withTimeout
    wtNow,            \* the clock of the timer
    wtStart,          \* the clock when withTimeout was called
    wtEvents,         \* observer: promise settlements and timer firing, in order
    \* ---- sequence(tasks): argument and locals
    sqTasks,          \* tasks.length
    sqIndex,          \* position of the for-of loop: the task being awaited
    sqResults,
    sqPc,             \* idle | awaiting | done
    sqOutcome,        \* the promise sequence returned
    \* ---- environment of sequence
    sqStarted,        \* observer: the indices of the tasks invoked, in order
    sqCompleted,      \* observer: the completions [index, ok, value], in order
    \* ---- raceSuccess(tasks): argument and locals
    rsTasks,          \* tasks.length
    rsErrors,         \* the errors array: index -> failure, or Hole
    rsRemaining,
    rsOutcome,        \* the promise raceSuccess returned
    \* ---- environment of raceSuccess
    rsStatus,         \* index -> none | running | ok | failed
    rsOrder,          \* observer: the completions [index, ok], in order
    \* ---- batch(batchSize, processor)(items): arguments and locals
    btSize,           \* batchSize
    btItems,          \* items
    btI,              \* the loop variable i
    btResults,
    btPc,             \* idle | awaiting | done
    btOutcome,        \* the promise the batch function returned
    \* ---- environment of batch
    btCalls,          \* observer: the processor calls [chunk, output, done], in order
    \* ---- once(fn): closure state
    onExecuted,
    onResult,
    \* ---- environment of once
    onCalls,          \* call id -> [pc, inv, value]: where the call is, the fn invocation it awaits
    onNext,           \* id the next call gets
    onInvocations,    \* observer: number of fn() invocations
    \* ---- debounce(fn, ms): closure state
    dbTimer,          \* the pending timer, as the id of the call whose args it holds (0: none)
    dbPending,        \* pendingPromise with its resolve and reject, by promise id (0: undefined)
    \* ---- environment of debounce
    dbPromise,        \* promise id -> [status, by, ok]: settled by the fn invocation of call `by`
    dbRunning,        \* the calls whose fn(...args) invocation is running
    dbCalls,          \* call id -> id of the promise the call returned (0: not called)
    dbBurst,          \* observer: call id -> number of its burst
    dbNext            \* id the next call gets

cbVars == <<state, failureCount, successCount, lastFailureTime, options,
            now, inflight, lastOp, streak, cbStep, cbAdmit>>
semVars == <<limit, count, queue, nextId, resolved, waited, resolvedAt,
             releaseCount, outstanding>>
plVars == <<plTasks, plLimit, currentIndex, results, workers, plOutcome,
            plInvoked, plOrder, plFailed>>
bhVars == <<concurrency, maxQueue, activeCount, bhQueue, bhNext, bhStatus,
            bhStartOrder, bhEverQueued, bhLast, bhPromise, bhOwner>>
rtVars == <<rtOptions, attempt, currentDelay, lastError, rtPc, rtResult,
            failsBefore, rtInvocations, rtThrown, rtRetryLog, rtDelays>>
wtVars == <<wtMs, wtMessage, wtPromise, wtTimer, wtPc, wtOutcome, wtNow,
            wtStart, wtEvents>>
sqVars == <<sqTasks, sqIndex, sqResults, sqPc, sqOutcome, sqStarted, sqCompleted>>
rsVars == <<rsTasks, rsErrors, rsRemaining, rsOutcome, rsStatus, rsOrder>>
btVars == <<btSize, btItems, btI, btResults, btPc, btOutcome, btCalls>>
onVars == <<onExecuted, onResult, onCalls, onNext, onInvocations>>
dbVars == <<dbTimer, dbPending, dbPromise, dbRunning, dbCalls, dbBurst, dbNext>>
vars == <<cbVars, semVars, plVars, bhVars, rtVars, wtVars, sqVars, rsVars, btVars,
          onVars, dbVars>>

\* What the operations of one component leave alone.
notCB == <<semVars, plVars, bhVars, rtVars, wtVars, sqVars, rsVars, btVars,
          onVars, dbVars>>
notSem == <<cbVars, plVars, bhVars, rtVars, wtVars, sqVars, rsVars, btVars,
          onVars, dbVars>>
notPL == <<cbVars, semVars, bhVars, rtVars, wtVars, sqVars, rsVars, btVars,
          onVars, dbVars>>
notBH == <<cbVars, semVars, plVars, rtVars, wtVars, sqVars, rsVars, btVars,
          onVars, dbVars>>
notRT == <<cbVars, semVars, plVars, bhVars, wtVars, sqVars, rsVars, btVars,
          onVars, dbVars>>
notWT == <<cbVars, semVars, plVars, bhVars, rtVars, sqVars, rsVars, btVars,
          onVars, dbVars>>
notSQ == <<cbVars, semVars, plVars, bhVars, rtVars, wtVars, rsVars, btVars,
          onVars, dbVars>>
notRS == <<cbVars, semVars, plVars, bhVars, rtVars, wtVars, sqVars, btVars,
          onVars, dbVars>>
notBT == <<cbVars, semVars, plVars, bhVars, rtVars, wtVars, sqVars, rsVars,
          onVars, dbVars>>
notON == <<cbVars, semVars, plVars, bhVars, rtVars, wtVars, sqVars, rsVars, btVars,
          dbVars>>
notDB == <<cbVars, semVars, plVars, bhVars, rtVars, wtVars, sqVars, rsVars, btVars,
          onVars>>

----------------------------------------------------------------------------
(* Bounds of the model *)

MaxFailureThreshold == 3
MaxSuccessThreshold == 2
MaxResetTimeout == 2
MaxTime == 5
MaxInflight == 2
MaxLimit == 3
MaxAcquires == 5
MaxOverRelease == 2
MaxTasks == 4
MaxPLLimit == 3
MaxConcurrency == 2
MaxMaxQueue == 2
MaxCalls == 5
MaxRetries == 3
MaxFails == 3
MaxBaseDelay == 3
MaxMultiplier == 2
MaxMaxDelay == 3
MaxMs == 2
MaxWtTime == 3
MaxSeqTasks == 4
MaxRaceTasks == 4
MaxBatchSize == 3
MaxItems == 4
MaxOnceCalls == 4
MaxDebounceCalls == 4

\* Date.now() when the breaker is constructed, in ms; chosen so that the clock
\* crosses a second boundary within MaxTime ticks.
StartTimes == {999}

\* Failures a task can raise, and the shouldTrip predicates a caller can pass.
TaskErrors == {"E1", "E2"}
TripPolicies == {"default", "onlyE1"}

----------------------------------------------------------------------------
(* ApiError and the ISO timestamp it carries *)

\* new Date(ms).toISOString(): the instant split into whole seconds and
\* milliseconds ("...:ss.sssZ").
toISOString(ms) == <<ms \div 1000, ms % 1000>>

\* Date.parse of such a string.
parseISO(iso) == iso[1] * 1000 + iso[2]

NoError == [kind |-> "none", statusCode |-> 0, code |-> "", lastFailure |-> <<0, 0>>]

\* A failure raised by the task itself (caller-thrown).
AppError(e) == [kind |-> e, statusCode |-> 0, code |-> "", lastFailure |-> <<0, 0>>]

\* new ApiError(503, 'Circuit breaker is OPEN', {code, lastFailure})
CircuitOpenError(t) ==
    [kind |-> "ApiError", statusCode |-> 503, code |-> "CIRCUIT_BREAKER_OPEN",
     lastFailure |-> toISOString(t)]

----------------------------------------------------------------------------
(* CircuitBreaker: the private methods, as functions of the breaker's fields *)

Breaker == [state |-> state, failureCount |-> failureCount,
            successCount |-> successCount, lastFailureTime |-> lastFailureTime]

\* options.shouldTrip(error); the default is () => true
shouldTrip(opts, e) == opts.shouldTrip = "default" \/ e = "E1"

\* trip() that forgets to stamp the failure time.
trip_noStamp(cb, t) == [cb EXCEPT !.state = "OPEN"]

trip(cb, t) == [cb EXCEPT !.state = "OPEN", !.lastFailureTime = t]

\* reset() that leaves successCount as it is.
reset_keepSuccesses(cb) == [cb EXCEPT !.state = "CLOSED", !.failureCount = 0]

\* reset() that leaves failureCount as it is.
reset_keepFailures(cb) == [cb EXCEPT !.state = "CLOSED", !.successCount = 0]

reset(cb) == [cb EXCEPT !.state = "CLOSED", !.failureCount = 0, !.successCount = 0]

\* updateState() that compares the elapsed time with the wrong sign, so that
\* an Open breaker is never half-opened.
updateState_never(cb, opts, t) ==
    IF cb.state = "OPEN" /\ cb.lastFailureTime - t >= opts.resetTimeout
    THEN [cb EXCEPT !.state = "HALF_OPEN", !.successCount = 0]
    ELSE cb

\* updateState() that half-opens without looking at the clock.
updateState_eager(cb, opts, t) ==
    IF cb.state = "OPEN"
    THEN [cb EXCEPT !.state = "HALF_OPEN", !.successCount = 0]
    ELSE cb

\* updateState() that half-opens without clearing successCount.
updateState_keepCount(cb, opts, t) ==
    IF cb.state = "OPEN" /\ t - cb.lastFailureTime >= opts.resetTimeout
    THEN [cb EXCEPT !.state = "HALF_OPEN"]
    ELSE cb

updateState(cb, opts, t) ==
    IF cb.state = "OPEN" /\ t - cb.lastFailureTime >= opts.resetTimeout
    THEN [cb EXCEPT !.state = "HALF_OPEN", !.successCount = 0]
    ELSE cb

\* onSuccess() that counts successes while Open as it does while HalfOpen.
onSuccess_whileOpen(cb, opts) ==
    IF cb.state \in {"HALF_OPEN", "OPEN"}
    THEN LET c == [cb EXCEPT !.successCount = @ + 1]
         IN  IF c.successCount >= opts.successThreshold THEN reset(c) ELSE c
    ELSE IF cb.state = "CLOSED"
    THEN [cb EXCEPT !.failureCount = 0]
    ELSE cb

\* onSuccess() that leaves failureCount alone in Closed.
onSuccess_noClear(cb, opts) ==
    IF cb.state = "HALF_OPEN"
    THEN LET c == [cb EXCEPT !.successCount = @ + 1]
         IN  IF c.successCount >= opts.successThreshold THEN reset(c) ELSE c
    ELSE cb

onSuccess(cb, opts) ==
    IF cb.state = "HALF_OPEN"
    THEN LET c == [cb EXCEPT !.successCount = @ + 1]
         IN  IF c.successCount >= opts.successThreshold THEN reset(c) ELSE c
    ELSE IF cb.state = "CLOSED"
    THEN [cb EXCEPT !.failureCount = 0]
    ELSE cb

\* onFailure() that trips one failure late (`>` for `>=`).
onFailure_late(cb, opts, e, t) ==
    IF ~shouldTrip(opts, e) THEN cb
    ELSE IF cb.state = "CLOSED"
    THEN LET c == [cb EXCEPT !.failureCount = @ + 1]
         IN  IF c.failureCount > opts.failureThreshold THEN trip(c, t) ELSE c
    ELSE IF cb.state = "HALF_OPEN"
    THEN trip(cb, t)
    ELSE cb

\* onFailure() that stamps the failure time again while Open.
onFailure_restamp(cb, opts, e, t) ==
    IF ~shouldTrip(opts, e) THEN cb
    ELSE IF cb.state = "CLOSED"
    THEN LET c == [cb EXCEPT !.failureCount = @ + 1]
         IN  IF c.failureCount >= opts.failureThreshold THEN trip(c, t) ELSE c
    ELSE trip(cb, t)

\* onFailure() that never consults shouldTrip.
onFailure_unfiltered(cb, opts, e, t) ==
    IF cb.state = "CLOSED"
    THEN LET c == [cb EXCEPT !.failureCount = @ + 1]
         IN  IF c.failureCount >= opts.failureThreshold THEN trip(c, t) ELSE c
    ELSE IF cb.state = "HALF_OPEN"
    THEN trip(cb, t)
    ELSE cb

onFailure(cb, opts, e, t) ==
    IF ~shouldTrip(opts, e) THEN cb
    ELSE IF cb.state = "CLOSED"
    THEN LET c == [cb EXCEPT !.failureCount = @ + 1]
         IN  IF c.failureCount >= opts.failureThreshold THEN trip(c, t) ELSE c
    ELSE IF cb.state = "HALF_OPEN"
    THEN trip(cb, t)
    ELSE cb

\* The catch block of execute that replaces the task's failure by an ApiError.
rethrow_wrapped(error) == [error EXCEPT !.kind = "ApiError", !.statusCode = 500]

\* `throw error` in the catch block of execute: the caught value itself.
rethrow(error) == error

SetBreaker(cb) ==
    /\ state' = cb.state
    /\ failureCount' = cb.failureCount
    /\ successCount' = cb.successCount
    /\ lastFailureTime' = cb.lastFailureTime

----------------------------------------------------------------------------
(* Observer of the failure streak: the number of qualifying task failures   *)
(* since the breaker was last in Closed with failureCount = 0 and no task   *)
(* success since; -1 when the breaker is not in such a run.                 *)

StreakAfterSuccess(cb) ==
    IF cb.state = "CLOSED" /\ cb.failureCount = 0 THEN 0 ELSE -1

StreakAfterFailure(opts, e) ==
    IF ~shouldTrip(opts, e) THEN streak
    ELSE IF streak >= 0 /\ streak < opts.failureThreshold THEN streak + 1
    ELSE -1

----------------------------------------------------------------------------
(* Observer of the admission periods.  A period is a maximal stretch of     *)
(* steps with the same stored state.  stale: the in-flight tasks that were  *)
(* admitted in an earlier period; probes: the successes, in the HalfOpen    *)
(* period last entered, of tasks admitted during it; lastStale: the task    *)
(* that completed in the last step was a stale one.                         *)

NoAdmit == [stale |-> 0, probes |-> 0, lastStale |-> FALSE]

\* After updateState() gave cb, before any task is invoked.
AdmitAfterUpdate(cb) ==
    IF cb.state # state
    THEN [stale |-> inflight, probes |-> 0, lastStale |-> FALSE]
    ELSE [cbAdmit EXCEPT !.lastStale = FALSE]

\* After a task completed (old: it was a stale one) and left the fields cb.
AdmitAfterCompletion(cb, old, ok) ==
    [stale |-> IF cb.state # state THEN inflight - 1
               ELSE IF old THEN cbAdmit.stale - 1 ELSE cbAdmit.stale,
     probes |-> IF ok /\ ~old /\ state = "HALF_OPEN"
                THEN cbAdmit.probes + 1 ELSE cbAdmit.probes,
     lastStale |-> old]

\* An in-flight task of the given kind exists.
CanComplete(old) ==
    IF old THEN cbAdmit.stale > 0 ELSE inflight - cbAdmit.stale > 0

----------------------------------------------------------------------------
(* CircuitBreaker: initial state and operations *)

InitCB ==
    /\ state = "CLOSED"
    /\ failureCount = 0
    /\ successCount = 0
    /\ lastFailureTime = 0
    /\ options \in [failureThreshold : 1..MaxFailureThreshold,
                    successThreshold : 1..MaxSuccessThreshold,
                    resetTimeout : 1..MaxResetTimeout,
                    shouldTrip : TripPolicies]
    /\ now \in StartTimes
    /\ inflight = 0
    /\ lastOp = [op |-> "new", from |-> "", outcome |-> "", error |-> NoError]
    /\ streak = 0
    /\ cbStep = [before |-> Breaker, raised |-> NoError]
    /\ cbAdmit = NoAdmit

\* execute(task), up to `await task()`: updateState, then either the
\* rejection with the circuit-open ApiError or the invocation of the task.
Execute ==
    LET cb == updateState(Breaker, options, now) IN
    /\ SetBreaker(cb)
    /\ IF cb.state = "OPEN"
       THEN /\ inflight' = inflight
            /\ lastOp' = [op |-> "execute", from |-> state, outcome |-> "rejected",
                          error |-> CircuitOpenError(cb.lastFailureTime)]
       ELSE /\ inflight < MaxInflight
            /\ inflight' = inflight + 1
            /\ lastOp' = [op |-> "execute", from |-> state, outcome |-> "invoked", error |-> NoError]
    /\ cbStep' = [before |-> Breaker, raised |-> NoError]
    /\ cbAdmit' = AdmitAfterUpdate(cb)
    /\ UNCHANGED <<options, now, streak>>
    /\ UNCHANGED notCB

\* execute(task), after `await task()` resolved: onSuccess, return result.
TaskSuccess ==
    /\ inflight > 0
    /\ inflight' = inflight - 1
    /\ LET cb == onSuccess(Breaker, options) IN
        /\ SetBreaker(cb)
        /\ streak' = StreakAfterSuccess(cb)
        /\ \E old \in BOOLEAN : /\ CanComplete(old)
                                 /\ cbAdmit' = AdmitAfterCompletion(cb, old, TRUE)
    /\ lastOp' = [op |-> "taskSuccess", from |-> state, outcome |-> "resolved", error |-> NoError]
    /\ cbStep' = [before |-> Breaker, raised |-> NoError]
    /\ UNCHANGED <<options, now>>
    /\ UNCHANGED notCB

\* execute(task), after `await task()` rejected with e: onFailure, rethrow.
TaskFailure(e) ==
    /\ inflight > 0
    /\ inflight' = inflight - 1
    /\ LET cb == onFailure(Breaker, options, e, now) IN
        /\ SetBreaker(cb)
        /\ \E old \in BOOLEAN : /\ CanComplete(old)
                                 /\ cbAdmit' = AdmitAfterCompletion(cb, old, FALSE)
    /\ streak' = StreakAfterFailure(options, e)
    /\ lastOp' = [op |-> "taskFailure", from |-> state, outcome |-> "rejected",
                  error |-> rethrow(AppError(e))]
    /\ cbStep' = [before |-> Breaker, raised |-> AppError(e)]
    /\ UNCHANGED <<options, now>>
    /\ UNCHANGED notCB

\* getState(): updateState, return this.state.
GetState ==
    LET cb == updateState(Breaker, options, now) IN
    /\ SetBreaker(cb)
    /\ lastOp' = [op |-> "getState", from |-> state, outcome |-> cb.state, error |-> NoError]
    /\ cbStep' = [before |-> Breaker, raised |-> NoError]
    /\ cbAdmit' = AdmitAfterUpdate(cb)
    /\ UNCHANGED <<options, now, inflight, streak>>
    /\ UNCHANGED notCB

\* The wall clock advances by one millisecond (Date.now() is taken to be
\* monotonic: no clock adjustment during the breaker's life).
Tick ==
    /\ \E t0 \in StartTimes : now < t0 + MaxTime
    /\ now' = now + 1
    /\ lastOp' = [op |-> "tick", from |-> state, outcome |-> "", error |-> NoError]
    /\ cbStep' = [before |-> Breaker, raised |-> NoError]
    /\ cbAdmit' = [cbAdmit EXCEPT !.lastStale = FALSE]
    /\ UNCHANGED <<state, failureCount, successCount, lastFailureTime, options,
                   inflight, streak>>
    /\ UNCHANGED notCB

\* The protected dependency has recovered: from the end of the observation
\* window on, no task fails.
Healthy == \A t0 \in StartTimes : now >= t0 + MaxTime

\* A task failure while the dependency is still unhealthy.
TaskFailureUnhealthy(e) ==
    /\ ~Healthy
    /\ TaskFailure(e)

\* Time goes on after the window for as long as an Open breaker is waiting
\* for its resetTimeout.
TickRecover ==
    /\ Healthy
    /\ state = "OPEN"
    /\ now - lastFailureTime < options.resetTimeout
    /\ now' = now + 1
    /\ lastOp' = [op |-> "tick", from |-> state, outcome |-> "", error |-> NoError]
    /\ cbStep' = [before |-> Breaker, raised |-> NoError]
    /\ cbAdmit' = [cbAdmit EXCEPT !.lastStale = FALSE]
    /\ UNCHANGED <<state, failureCount, successCount, lastFailureTime, options,
                   inflight, streak>>
    /\ UNCHANGED notCB

----------------------------------------------------------------------------
(* CircuitBreaker: properties *)

Elapsed == now - lastFailureTime >= options.resetTimeout

\* C1: starting in Closed with failureCount = 0, the failureThreshold-th
\* qualifying task failure with no task success in between leaves the breaker
\* Open; after fewer such failures it is still Closed.
C1_TripAtThreshold ==
    /\ [](streak >= 0 /\ streak < options.failureThreshold => state = "CLOSED")
    /\ [][(streak >= 0 /\ streak' = streak + 1) =>
            /\ (streak' = options.failureThreshold => state' = "OPEN")
            /\ (streak' < options.failureThreshold => state' = "CLOSED")]_vars

C1_Witness ==
    /\ options.failureThreshold = MaxFailureThreshold
    /\ streak = options.failureThreshold
    /\ lastOp.op = "taskFailure"
    /\ state = "OPEN"

\* C2: an execute call made while Open with less than resetTimeout elapsed
\* since the last trip rejects with the 503 circuit-open failure carrying the
\* last-trip timestamp, invokes no task and changes no field of the breaker.
C2_RejectFast ==
    [][(lastOp'.op = "execute" /\ state = "OPEN" /\ ~Elapsed) =>
        /\ lastOp'.outcome = "rejected"
        /\ lastOp'.error.statusCode = 503
        /\ lastOp'.error.code = "CIRCUIT_BREAKER_OPEN"
        /\ parseISO(lastOp'.error.lastFailure) = lastFailureTime
        /\ inflight' = inflight
        /\ UNCHANGED <<state, failureCount, successCount, lastFailureTime>>]_vars

C2_Witness ==
    /\ lastOp.op = "execute"
    /\ lastOp.from = "OPEN"
    /\ lastOp.outcome = "rejected"
    /\ state = "OPEN"
    /\ lastFailureTime >= 1000
    /\ inflight > 0

\* C3: Open -> HalfOpen happens only inside an execute or getState call made
\* when now - lastFailureTime >= resetTimeout; an execute call made then moves
\* the breaker to HalfOpen with successCount = 0 and invokes the task.
C3_LazyHalfOpen ==
    /\ [][(state = "OPEN" /\ state' = "HALF_OPEN") =>
            /\ lastOp'.op \in {"execute", "getState"}
            /\ Elapsed
            /\ successCount' = 0]_vars
    /\ [][(state = "OPEN" /\ Elapsed /\ lastOp'.op = "execute") =>
            /\ state' = "HALF_OPEN"
            /\ successCount' = 0
            /\ lastOp'.outcome = "invoked"
            /\ inflight' = inflight + 1]_vars

C3_Witness ==
    /\ lastOp.op = "execute"
    /\ lastOp.from = "OPEN"
    /\ lastOp.outcome = "invoked"
    /\ state = "HALF_OPEN"
    /\ failureCount = options.failureThreshold

\* C4: in HalfOpen a task success counts one more success; when the count
\* reaches successThreshold the breaker is Closed with both counters 0, and
\* below successThreshold it stays HalfOpen with successCount one higher.
C4_Recovery ==
    [][(state = "HALF_OPEN" /\ lastOp'.op = "taskSuccess") =>
        IF successCount + 1 >= options.successThreshold
        THEN state' = "CLOSED" /\ failureCount' = 0 /\ successCount' = 0
        ELSE state' = "HALF_OPEN" /\ successCount' = successCount + 1
             /\ failureCount' = failureCount]_vars

C4_Witness ==
    /\ lastOp.op = "taskSuccess"
    /\ lastOp.from = "HALF_OPEN"
    /\ options.successThreshold = MaxSuccessThreshold
    /\ state = "CLOSED"

\* C5: in HalfOpen one qualifying task failure opens the breaker at once,
\* whatever successCount is, and stamps lastFailureTime with the time of the
\* failure; HalfOpen is only ever held resetTimeout or more after that stamp.
C5_ReTrip ==
    /\ [][(state = "HALF_OPEN" /\ lastOp'.op = "taskFailure"
            /\ shouldTrip(options, lastOp'.error.kind)) =>
            /\ state' = "OPEN"
            /\ lastFailureTime' = now
            /\ successCount' = successCount]_vars
    /\ [](state = "HALF_OPEN" => Elapsed)

C5_Witness ==
    /\ lastOp.op = "taskFailure"
    /\ lastOp.from = "HALF_OPEN"
    /\ successCount = 1
    /\ state = "OPEN"
    /\ lastFailureTime = now
    /\ lastFailureTime > 999

\* C25: in Closed a task success sets failureCount to 0 and changes nothing
\* else, so the breaker leaves Closed for Open only on the step that makes
\* failureThreshold qualifying failures since the last task success.
C25_SuccessClears ==
    /\ [][(state = "CLOSED" /\ lastOp'.op = "taskSuccess") =>
            /\ failureCount' = 0
            /\ state' = "CLOSED"
            /\ UNCHANGED <<successCount, lastFailureTime>>]_vars
    /\ [][(state = "CLOSED" /\ state' = "OPEN") =>
            /\ lastOp'.op = "taskFailure"
            /\ streak' = options.failureThreshold]_vars
    /\ [](state = "CLOSED" => streak = failureCount)

C25_Witness ==
    /\ lastOp.op = "taskSuccess"
    /\ cbStep.before.state = "CLOSED"
    /\ cbStep.before.failureCount = MaxFailureThreshold - 1
    /\ state = "CLOSED"
    /\ failureCount = 0
    /\ inflight > 0

\* C26: a task failure that shouldTrip refuses changes none of state,
\* failureCount, successCount and lastFailureTime, in Closed and in HalfOpen.
C26_NonQualifying ==
    [][(lastOp'.op = "taskFailure" /\ options.shouldTrip = "onlyE1"
         /\ cbStep'.raised = AppError("E2")) =>
        UNCHANGED <<state, failureCount, successCount, lastFailureTime>>]_vars

C26_Witness ==
    /\ lastOp.op = "taskFailure"
    /\ options.shouldTrip = "onlyE1"
    /\ cbStep.raised = AppError("E2")
    /\ \/ state = "HALF_OPEN" /\ successCount = 1
       \/ state = "CLOSED" /\ failureCount = MaxFailureThreshold - 1

\* C27: a failure of an invoked task is what execute rejects with, in the step
\* that records it; the circuit-open failure is raised only by an execute call
\* that invokes no task.
C27_PassThrough ==
    /\ [][lastOp'.op = "taskFailure" =>
            /\ lastOp'.outcome = "rejected"
            /\ lastOp'.error = cbStep'.raised
            /\ lastOp'.error.code # "CIRCUIT_BREAKER_OPEN"
            /\ inflight' = inflight - 1
            /\ (state = "CLOSED" /\ shouldTrip(options, cbStep'.raised.kind)
                    => failureCount' = failureCount + 1)]_vars
    /\ [][lastOp'.error.code = "CIRCUIT_BREAKER_OPEN" =>
            /\ lastOp'.op = "execute"
            /\ lastOp'.outcome = "rejected"
            /\ inflight' = inflight]_vars

C27_Witness ==
    /\ lastOp.op = "taskFailure"
    /\ lastOp.error = AppError("E1")
    /\ cbStep.raised = AppError("E1")
    /\ cbStep.before.state = "CLOSED"
    /\ state = "OPEN"

\* C33: the only state changes are Closed -> Open, Open -> HalfOpen,
\* HalfOpen -> Closed and HalfOpen -> Open.
C33_TransitionGraph ==
    [][state' # state =>
        <<state, state'>> \in {<<"CLOSED", "OPEN">>, <<"OPEN", "HALF_OPEN">>,
                               <<"HALF_OPEN", "CLOSED">>, <<"HALF_OPEN", "OPEN">>}]_vars

C33_Witness ==
    /\ cbStep.before.state = "HALF_OPEN"
    /\ state = "CLOSED"
    /\ lastOp.op = "taskSuccess"
    /\ lastFailureTime > 999
    /\ inflight > 0

\* C34: Closed implies failureCount < failureThreshold and successCount = 0;
\* HalfOpen implies successCount < successThreshold.
C34_CounterInvariants ==
    /\ state = "CLOSED" => failureCount < options.failureThreshold /\ successCount = 0
    /\ state = "HALF_OPEN" => successCount < options.successThreshold

C34_Witness ==
    /\ state = "CLOSED"
    /\ cbStep.before.state = "HALF_OPEN"
    /\ cbStep.before.successCount = MaxSuccessThreshold - 1
    /\ cbStep.before.failureCount = MaxFailureThreshold
    /\ inflight = MaxInflight - 1

\* C35: a task completion (success or qualifying failure) that finds the
\* stored state Open changes none of state, failureCount, successCount and
\* lastFailureTime.
C35_StaleWhileOpen ==
    [][(state = "OPEN" /\ lastOp'.op \in {"taskSuccess", "taskFailure"}) =>
        UNCHANGED <<state, failureCount, successCount, lastFailureTime>>]_vars

C35_Witness ==
    /\ lastOp.op = "taskFailure"
    /\ cbStep.before.state = "OPEN"
    /\ cbStep.raised = AppError("E1")
    /\ state = "OPEN"
    /\ now > lastFailureTime + options.resetTimeout

\* C36: the breaker goes from HalfOpen to Closed only when successThreshold
\* tasks admitted during the current HalfOpen period have succeeded; the
\* success of a task admitted in an earlier period does not change
\* successCount or the state.
C36_ProbeAttribution ==
    /\ [][(state = "HALF_OPEN" /\ state' = "CLOSED") =>
            cbAdmit'.probes >= options.successThreshold]_vars
    /\ [][(lastOp'.op = "taskSuccess" /\ cbAdmit'.lastStale) =>
            UNCHANGED <<state, successCount>>]_vars

----------------------------------------------------------------------------
(* semaphore(limit): the closure state and its two methods *)

InitSem ==
    /\ limit \in 1..MaxLimit
    /\ count = 0
    /\ queue = <<>>
    /\ nextId = 1
    /\ resolved = {}
    /\ waited = {}
    /\ resolvedAt = [i \in 1..MaxAcquires |-> 0]
    /\ releaseCount = 0
    /\ outstanding = 0

\* acquire() that admits one caller too many (`<=` for `<`).
hasSlot_offByOne(c, lim) == c <= lim

\* Whether acquire() finds a free slot: `count < limit`.
hasSlot(c, lim) == c < lim

\* acquire() that grants the slot without counting it.
countAfterAcquire_forgot(c) == c

\* count after an immediate grant: `count++`.
countAfterAcquire(c) == c + 1

\* acquire(): the promise executor runs synchronously inside the call.
Acquire ==
    /\ nextId <= MaxAcquires
    /\ nextId' = nextId + 1
    /\ IF hasSlot(count, limit)
       THEN /\ count' = countAfterAcquire(count)
            /\ resolved' = resolved \cup {nextId}
            /\ outstanding' = outstanding + 1
            /\ UNCHANGED <<queue, waited>>
       ELSE /\ queue' = Append(queue, nextId)
            /\ waited' = waited \cup {nextId}
            /\ UNCHANGED <<count, resolved, outstanding>>
    /\ UNCHANGED <<limit, resolvedAt, releaseCount>>
    /\ UNCHANGED notSem

\* release() that takes the newest waiter (pop() for shift()).
shiftIndex_pop(q) == Len(q)

\* queue.shift(): the index of the entry release() takes out of the queue.
shiftIndex(q) == 1

\* release() that decrements count even when a waiter takes the slot over.
countAfterRelease_always(c, handedOff) == c - 1

\* count after release(): unchanged when a waiter took over the slot
\* (`next()`), decremented otherwise (`count--`).
countAfterRelease(c, handedOff) == IF handedOff THEN c ELSE c - 1

\* release(): any code holding the semaphore object may call it.
Release ==
    /\ queue # <<>> \/ count > -MaxOverRelease
    /\ releaseCount' = releaseCount + 1
    /\ count' = countAfterRelease(count, queue # <<>>)
    /\ IF queue # <<>>
       THEN LET k == shiftIndex(queue)
                next == queue[k]
            IN  /\ queue' = [i \in 1..(Len(queue) - 1) |->
                                IF i < k THEN queue[i] ELSE queue[i + 1]]
                /\ resolved' = resolved \cup {next}
                /\ resolvedAt' = [resolvedAt EXCEPT ![next] = releaseCount + 1]
                /\ outstanding' = outstanding
       ELSE /\ outstanding' = outstanding - 1
            /\ UNCHANGED <<queue, resolved, resolvedAt>>
    /\ UNCHANGED <<limit, nextId, waited>>
    /\ UNCHANGED notSem

\* get available(): limit - count
available == limit - count

\* get pending(): queue.length
pending == Len(queue)

----------------------------------------------------------------------------
(* semaphore: properties *)

Called == 1..(nextId - 1)

C7_HeldInRange ==
    /\ count \in 0..limit
    /\ available \in 0..limit

\* C8: with no release() made so far, the first limit acquire() calls are
\* resolved and the (limit+1)-th is pending at the head of the queue; the
\* first release() resolves it.
C8_Blocking ==
    /\ [](releaseCount = 0 =>
            /\ \A i \in Called : i <= limit => i \in resolved
            /\ \A i \in Called : i > limit => i \notin resolved
            /\ nextId > limit + 1 => Head(queue) = limit + 1)
    /\ [][(releaseCount = 0 /\ nextId > limit + 1 /\ releaseCount' = 1) =>
            (limit + 1) \in resolved']_vars

C8_Witness ==
    /\ limit = MaxLimit
    /\ releaseCount = 1
    /\ resolvedAt[limit + 1] = 1
    /\ (limit + 1) \in resolved

\* C9: a caller that had to wait is resolved before every caller that called
\* acquire() after it, and of two waiters the earlier one is resolved by an
\* earlier release(); the queue holds the waiters in call order.
C9_Fifo ==
    /\ \A i \in waited : \A j \in Called :
          (i < j /\ j \in resolved) =>
             /\ i \in resolved
             /\ (j \in waited => resolvedAt[i] < resolvedAt[j])
    /\ \A a, b \in 1..Len(queue) : a < b => queue[a] < queue[b]

C9_Witness ==
    \E i, j, k \in waited :
        /\ i < j /\ j < k
        /\ {i, j, k} \subseteq resolved
        /\ resolvedAt[i] < resolvedAt[j] /\ resolvedAt[j] < resolvedAt[k]

\* C10: release() with waiters takes out exactly the oldest one, resolves it
\* and leaves count as it is; release() with no waiter decrements count and
\* changes nothing else.
C10_ReleaseHandOff ==
    [][releaseCount' # releaseCount =>
        IF queue # <<>>
        THEN /\ queue' = Tail(queue)
             /\ resolved' = resolved \cup {Head(queue)}
             /\ Head(queue) \notin resolved
             /\ count' = count
        ELSE /\ count' = count - 1
             /\ queue' = queue
             /\ resolved' = resolved]_vars

C10_Witness ==
    /\ releaseCount >= 2
    /\ \E i \in waited : resolvedAt[i] = 1
    /\ count < limit
    /\ queue = <<>>

----------------------------------------------------------------------------
(* parallelLimit(tasks, limit) *)

Min(a, b) == IF a < b THEN a ELSE b

\* An array slot never written (new Array(n) leaves holes).
Hole == <<"hole">>

\* The value tasks[i]() resolves with, and the failure it rejects with.
TaskValue(i) == <<"value", i>>
TaskFailureOf(i) == <<"failure", i>>

Indices == 0..(plTasks - 1)

InitPL ==
    /\ plTasks \in 0..MaxTasks
    /\ plLimit \in 1..MaxPLLimit
    /\ currentIndex = 0
    /\ results = [i \in 0..(MaxTasks - 1) |-> Hole]
    /\ workers = <<>>
    /\ plOutcome = [status |-> "idle", value |-> <<>>]
    /\ plInvoked = [i \in 0..(MaxTasks - 1) |-> 0]
    /\ plOrder = <<>>
    /\ plFailed = {}

\* parallelLimit that starts one runNext() per task.
workerCount_perTask(lim, n) == n

\* Array.from({ length: Math.min(limit, tasks.length) }, ...)
workerCount(lim, n) == Min(lim, n)

\* runNext() that stores the result at the cursor's position after the await.
resultSlot_cursor(index, cur) == cur - 1

\* results[index] = await task(): the slot is the index claimed before the await.
resultSlot(index, cur) == index

\* Promise.allSettled in place of Promise.all: the failure is reported only
\* when every worker has finished.
settle_drain(outcome, ws, res, failure) ==
    IF outcome.status # "pending" THEN outcome
    ELSE IF \E w \in DOMAIN ws : ws[w].pc = "running" THEN outcome
    ELSE IF failure # <<>> THEN [status |-> "rejected", value |-> failure]
    ELSE [status |-> "resolved", value |-> [i \in Indices |-> res[i]]]

\* The promise of Promise.all(workers) followed by `return results`, given
\* the promise so far and the workers after a step.
settle(outcome, ws, res, failure) ==
    IF outcome.status # "pending" THEN outcome
    ELSE IF failure # <<>> THEN [status |-> "rejected", value |-> failure]
    ELSE IF \A w \in DOMAIN ws : ws[w].pc = "done"
    THEN [status |-> "resolved", value |-> [i \in Indices |-> res[i]]]
    ELSE outcome

\* The call: every worker is created in turn and runs runNext() up to its
\* first await, claiming the indices 0, 1, ... in worker order.
PLCall ==
    /\ plOutcome.status = "idle"
    /\ LET n == workerCount(plLimit, plTasks)
           ws == [w \in 1..n |-> [pc |-> "running", index |-> w - 1]]
       IN  /\ workers' = ws
           /\ currentIndex' = n
           /\ plInvoked' = [i \in 0..(MaxTasks - 1) |->
                               IF i < n THEN 1 ELSE 0]
           /\ plOutcome' = settle([status |-> "pending", value |-> <<>>],
                                  ws, results, <<>>)
    /\ UNCHANGED <<plTasks, plLimit, results, plOrder, plFailed>>
    /\ UNCHANGED notPL

\* tasks[index]() of worker w resolved: store the value, then the loop test
\* and either the next claim (currentIndex++) and invocation, or the return.
PLTaskResolve(w) ==
    /\ w \in DOMAIN workers
    /\ workers[w].pc = "running"
    /\ LET index == workers[w].index
           res == [results EXCEPT ![resultSlot(index, currentIndex)] = TaskValue(index)]
           more == currentIndex < plTasks
           ws == [workers EXCEPT ![w] =
                     IF more THEN [pc |-> "running", index |-> currentIndex]
                     ELSE [pc |-> "done", index |-> index]]
       IN  /\ results' = res
           /\ workers' = ws
           /\ currentIndex' = IF more THEN currentIndex + 1 ELSE currentIndex
           /\ plInvoked' = IF more
                           THEN [plInvoked EXCEPT ![currentIndex] = @ + 1]
                           ELSE plInvoked
           /\ plOrder' = Append(plOrder, index)
           /\ plOutcome' = settle(plOutcome, ws, res, <<>>)
    /\ UNCHANGED <<plTasks, plLimit, plFailed>>
    /\ UNCHANGED notPL

\* tasks[index]() of worker w rejected: runNext() of that worker rejects,
\* and with it Promise.all(workers) if it is still pending.
PLTaskReject(w) ==
    /\ w \in DOMAIN workers
    /\ workers[w].pc = "running"
    /\ LET index == workers[w].index
           ws == [workers EXCEPT ![w] = [pc |-> "failed", index |-> index]]
       IN  /\ workers' = ws
           /\ plOrder' = Append(plOrder, index)
           /\ plFailed' = plFailed \cup {index}
           /\ plOutcome' = settle(plOutcome, ws, results, TaskFailureOf(index))
    /\ UNCHANGED <<plTasks, plLimit, currentIndex, results, plInvoked>>
    /\ UNCHANGED notPL

----------------------------------------------------------------------------
(* parallelLimit: properties *)

RECURSIVE SumTo(_, _)
SumTo(f, n) == IF n < 0 THEN 0 ELSE f[n] + SumTo(f, n - 1)

\* Tasks started and not yet completed.
PLInFlight == SumTo(plInvoked, MaxTasks - 1) - Len(plOrder)

\* C11: at most limit tasks are started and not yet completed at any moment.
C11_ConcurrencyBound == PLInFlight <= plLimit

C11_Witness ==
    /\ plLimit >= 2
    /\ plTasks > plLimit
    /\ PLInFlight = plLimit
    /\ Len(plOrder) >= 2

\* C12: when parallelLimit resolves (all tasks succeeded), every task has
\* been invoked exactly once and results[i] is the value of tasks[i].
C12_PositionStable ==
    plOutcome.status = "resolved" =>
        /\ \A i \in Indices : plInvoked[i] = 1
        /\ \A i \in 0..(MaxTasks - 1) : i \notin Indices => plInvoked[i] = 0
        /\ DOMAIN plOutcome.value = Indices
        /\ \A i \in Indices : plOutcome.value[i] = TaskValue(i)

C12_Witness ==
    /\ plOutcome.status = "resolved"
    /\ plTasks = MaxTasks
    /\ plLimit >= 2
    /\ \E a, b \in 1..Len(plOrder) : a < b /\ plOrder[a] > plOrder[b]

\* The first task to fail, in completion order (-1: none failed).
PLFirstFailed ==
    IF plFailed = {} THEN -1
    ELSE plOrder[CHOOSE k \in 1..Len(plOrder) :
                    /\ plOrder[k] \in plFailed
                    /\ \A j \in 1..(k - 1) : plOrder[j] \notin plFailed]

\* C23: as soon as a task has failed, parallelLimit is rejected with the
\* failure of the first task to fail, whatever the other workers still have
\* in flight; it is rejected for no other reason.
C23_FailFast ==
    /\ plFailed # {} =>
          /\ plOutcome.status = "rejected"
          /\ plOutcome.value = TaskFailureOf(PLFirstFailed)
    /\ plOutcome.status = "rejected" => plFailed # {}

C23_Witness ==
    /\ plOutcome.status = "rejected"
    /\ Cardinality(plFailed) >= 2
    /\ PLInFlight >= 1
    /\ plOutcome.value = TaskFailureOf(PLFirstFailed)
    /\ plOrder[Len(plOrder)] \in plFailed
    /\ plOrder[Len(plOrder)] # PLFirstFailed

\* C24: once a task has failed, no task that had not been started is claimed
\* or invoked.
C24_NoClaimAfterFailure ==
    [][plFailed # {} => /\ currentIndex' = currentIndex
                        /\ plInvoked' = plInvoked]_vars

----------------------------------------------------------------------------
(* bulkhead(options) *)

\* maxQueue = Infinity, the default of the destructuring.
Infinity == [finite |-> FALSE, n |-> 0]

NoPromise == [status |-> "none", value |-> <<>>]
PendingPromise == [status |-> "pending", value |-> <<>>]

\* new ApiError(429, 'Bulkhead queue limit reached')
SaturationError == <<"ApiError", 429>>

InitBH ==
    /\ concurrency \in 1..MaxConcurrency
    /\ maxQueue \in {[finite |-> TRUE, n |-> k] : k \in 0..MaxMaxQueue} \cup {Infinity}
    /\ activeCount = 0
    /\ bhQueue = <<>>
    /\ bhNext = 1
    /\ bhStatus = [i \in 1..MaxCalls |-> "none"]
    /\ bhStartOrder = <<>>
    /\ bhEverQueued = {}
    /\ bhLast = [op |-> "new", id |-> 0, outcome |-> "", statusCode |-> 0]
    /\ bhPromise = [i \in 1..MaxCalls |-> NoPromise]
    /\ bhOwner = [i \in 1..MaxCalls |-> 0]

\* A bulkhead that admits one call too many (`<=` for `<`).
admits_offByOne(ac, c) == ac <= c

\* `activeCount < concurrency`, the test of the returned function.
admits(ac, c) == ac < c

\* A bulkhead that lets the queue grow one entry too long (`>` for `>=`).
queueFull_late(len, mq) == mq.finite /\ len > mq.n

\* `queue.length >= maxQueue`
queueFull(len, mq) == mq.finite /\ len >= mq.n

\* processQueue() that takes the newest entry (pop() for shift()).
bhShiftIndex_pop(q) == Len(q)

\* queue.shift() in processQueue: the index of the entry taken.
bhShiftIndex(q) == 1

\* processQueue() that takes resolve and reject from the newest entry and
\* the task from the oldest.
entryPromise_newest(q, k) == q[Len(q)]

\* const { resolve, reject, task } = queue.shift(): the promise that the
\* outcome of the task of entry k settles is the promise of the same entry.
entryPromise(q, k) == q[k]

\* processQueue() that wants two free slots before it takes an entry.
processQueue_strict(ac, q, st, order) ==
    IF ac + 1 >= concurrency \/ Len(q) = 0
    THEN [ac |-> ac, q |-> q, st |-> st, order |-> order]
    ELSE LET k == bhShiftIndex(q)
             id == q[k]
         IN  [ac |-> ac + 1,
              q |-> [i \in 1..(Len(q) - 1) |-> IF i < k THEN q[i] ELSE q[i + 1]],
              st |-> [st EXCEPT ![id] = "running"],
              order |-> Append(order, id)]

\* A finally block that frees the slot and does not look at the queue.
processQueue_never(ac, q, st, order) ==
    [ac |-> ac, q |-> q, st |-> st, order |-> order]

\* processQueue(): with a free slot and a queued entry, take the entry out,
\* count it active and invoke its task.  Gives the state after the call.
processQueue(ac, q, st, order) ==
    IF ac >= concurrency \/ Len(q) = 0
    THEN [ac |-> ac, q |-> q, st |-> st, order |-> order]
    ELSE LET k == bhShiftIndex(q)
             id == q[k]
         IN  [ac |-> ac + 1,
              q |-> [i \in 1..(Len(q) - 1) |-> IF i < k THEN q[i] ELSE q[i + 1]],
              st |-> [st EXCEPT ![id] = "running"],
              order |-> Append(order, id)]

\* A call of the returned function, up to its first await or its return.
BHCall ==
    /\ bhNext <= MaxCalls
    /\ bhNext' = bhNext + 1
    /\ IF admits(activeCount, concurrency)
       THEN /\ activeCount' = activeCount + 1
            /\ bhStatus' = [bhStatus EXCEPT ![bhNext] = "running"]
            /\ bhStartOrder' = Append(bhStartOrder, bhNext)
            /\ bhLast' = [op |-> "call", id |-> bhNext, outcome |-> "started",
                          statusCode |-> 0]
            /\ bhPromise' = [bhPromise EXCEPT ![bhNext] = PendingPromise]
            /\ bhOwner' = [bhOwner EXCEPT ![bhNext] = bhNext]
            /\ UNCHANGED <<bhQueue, bhEverQueued>>
       ELSE IF queueFull(Len(bhQueue), maxQueue)
       THEN /\ bhStatus' = [bhStatus EXCEPT ![bhNext] = "rejected"]
            /\ bhLast' = [op |-> "call", id |-> bhNext, outcome |-> "rejected",
                          statusCode |-> 429]
            /\ bhPromise' = [bhPromise EXCEPT ![bhNext] =
                                 [status |-> "rejected", value |-> SaturationError]]
            /\ UNCHANGED <<activeCount, bhQueue, bhStartOrder, bhEverQueued, bhOwner>>
       ELSE /\ bhQueue' = Append(bhQueue, bhNext)
            /\ bhEverQueued' = bhEverQueued \cup {bhNext}
            /\ bhStatus' = [bhStatus EXCEPT ![bhNext] = "queued"]
            /\ bhLast' = [op |-> "call", id |-> bhNext, outcome |-> "queued",
                          statusCode |-> 0]
            /\ bhPromise' = [bhPromise EXCEPT ![bhNext] = PendingPromise]
            /\ UNCHANGED <<activeCount, bhStartOrder, bhOwner>>
    /\ UNCHANGED <<concurrency, maxQueue>>
    /\ UNCHANGED notBH

\* The task of call id settled (ok: resolved, else rejected): the call's
\* promise settles the same way, then `finally { activeCount--; processQueue() }`.
BHTaskDone(id, ok) ==
    /\ bhStatus[id] = "running"
    /\ LET st == [bhStatus EXCEPT ![id] = IF ok THEN "resolved" ELSE "failed"]
           r == processQueue(activeCount - 1, bhQueue, st, bhStartOrder)
       IN  /\ activeCount' = r.ac
           /\ bhQueue' = r.q
           /\ bhStatus' = r.st
           /\ bhStartOrder' = r.order
           /\ bhPromise' = [bhPromise EXCEPT ![bhOwner[id]] =
                                IF @.status # "pending" THEN @
                                ELSE IF ok
                                THEN [status |-> "resolved", value |-> TaskValue(id)]
                                ELSE [status |-> "rejected", value |-> TaskFailureOf(id)]]
           /\ bhOwner' = IF Len(r.order) > Len(bhStartOrder)
                          THEN LET k == bhShiftIndex(bhQueue)
                               IN  [bhOwner EXCEPT ![bhQueue[k]] = entryPromise(bhQueue, k)]
                          ELSE bhOwner
    /\ bhLast' = [op |-> "done", id |-> id,
                  outcome |-> IF ok THEN "resolved" ELSE "failed", statusCode |-> 0]
    /\ UNCHANGED <<concurrency, maxQueue, bhNext, bhEverQueued>>
    /\ UNCHANGED notBH

----------------------------------------------------------------------------
(* bulkhead: properties *)

BHRunning == {id \in 1..MaxCalls : bhStatus[id] = "running"}

\* Position of call id in the order the tasks were invoked (0: not invoked).
BHStartPos(id) ==
    IF \E k \in 1..Len(bhStartOrder) : bhStartOrder[k] = id
    THEN CHOOSE k \in 1..Len(bhStartOrder) : bhStartOrder[k] = id
    ELSE 0

\* C13: the number of tasks started through the bulkhead and not yet
\* completed never exceeds concurrency.
C13_BulkheadBound ==
    /\ Cardinality(BHRunning) <= concurrency
    /\ activeCount = Cardinality(BHRunning)

C13_Witness ==
    /\ concurrency = MaxConcurrency
    /\ Cardinality(BHRunning) = concurrency
    /\ bhQueue # <<>>
    /\ \E id \in 1..MaxCalls : bhStatus[id] \in {"resolved", "failed"}

\* C14: a call arriving when concurrency tasks are running and the queue
\* holds maxQueue entries is rejected with 429, its task is not invoked, and
\* activeCount and the queue are unchanged; the queue never holds more than
\* maxQueue entries.
C14_Saturation ==
    /\ [][(bhNext' = bhNext + 1 /\ Cardinality(BHRunning) = concurrency
            /\ maxQueue.finite /\ Len(bhQueue) = maxQueue.n) =>
            /\ bhLast'.outcome = "rejected"
            /\ bhLast'.statusCode = 429
            /\ bhLast'.id = bhNext
            /\ bhStatus'[bhNext] = "rejected"
            /\ bhStartOrder' = bhStartOrder
            /\ UNCHANGED <<activeCount, bhQueue>>]_vars
    /\ [](maxQueue.finite => Len(bhQueue) <= maxQueue.n)

C14_Witness ==
    /\ bhLast.op = "call"
    /\ bhLast.outcome = "rejected"
    /\ bhLast.statusCode = 429
    /\ maxQueue.finite
    /\ maxQueue.n = MaxMaxQueue
    /\ Len(bhQueue) = maxQueue.n
    /\ concurrency = MaxConcurrency

\* C15: a call that was enqueued has its task invoked before every call that
\* arrived after it; the queue holds the calls in arrival order.
C15_BulkheadFifo ==
    /\ \A i \in bhEverQueued : \A j \in 1..MaxCalls :
          (i < j /\ BHStartPos(j) > 0) =>
              /\ BHStartPos(i) > 0
              /\ BHStartPos(i) < BHStartPos(j)
    /\ \A a, b \in 1..Len(bhQueue) : a < b => bhQueue[a] < bhQueue[b]

C15_Witness ==
    \E i, j, k \in bhEverQueued :
        /\ i < j /\ j < k
        /\ BHStartPos(i) > 0
        /\ BHStartPos(i) < BHStartPos(j)
        /\ BHStartPos(j) < BHStartPos(k)

\* C28: the step in which a task completes releases its slot: with a
\* non-empty queue the oldest queued task is started in that step and the
\* running count is as before, with an empty queue the count drops by one;
\* when no submitted task is running or queued, activeCount is 0 and the
\* queue is empty.
C28_SlotRelease ==
    /\ [][(\E id \in 1..MaxCalls : /\ bhStatus[id] = "running"
                                     /\ bhStatus'[id] \in {"resolved", "failed"}) =>
            IF bhQueue # <<>>
            THEN /\ bhQueue' = Tail(bhQueue)
                 /\ bhStatus'[Head(bhQueue)] = "running"
                 /\ bhStartOrder' = Append(bhStartOrder, Head(bhQueue))
                 /\ activeCount' = activeCount
            ELSE /\ activeCount' = activeCount - 1
                 /\ bhQueue' = <<>>
                 /\ bhStartOrder' = bhStartOrder]_vars
    /\ []((\A id \in 1..MaxCalls : bhStatus[id] \notin {"running", "queued"}) =>
            /\ activeCount = 0
            /\ bhQueue = <<>>)

C28_Witness ==
    /\ bhLast.op = "done"
    /\ bhNext > MaxCalls
    /\ \A id \in 1..MaxCalls : bhStatus[id] \notin {"running", "queued"}
    /\ Cardinality(bhEverQueued) >= 2
    /\ \E id \in bhEverQueued : bhStatus[id] = "failed"
    /\ activeCount = 0

\* C38: a non-empty queue implies that concurrency tasks are running.
C38_NoIdleSlot ==
    bhQueue # <<>> => /\ Cardinality(BHRunning) = concurrency
                      /\ activeCount = concurrency

C38_Witness ==
    /\ bhQueue # <<>>
    /\ bhLast.op = "done"
    /\ concurrency = MaxConcurrency
    /\ Cardinality(BHRunning) = concurrency
    /\ \E id \in bhEverQueued : bhStatus[id] = "running"

\* C39: when every started task completes, every call that was not rejected
\* with 429 settles, and a settled call holds the value or the failure of its
\* own task.
C39_ProgressRouting ==
    /\ \A id \in 1..MaxCalls :
          (bhPromise[id].status = "pending") ~>
              (bhPromise[id].status \in {"resolved", "rejected"})
    /\ [](\A id \in 1..MaxCalls :
            /\ bhPromise[id].status = "resolved" => bhPromise[id].value = TaskValue(id)
            /\ bhPromise[id].status = "rejected" =>
                  bhPromise[id].value \in {TaskFailureOf(id), SaturationError}
            /\ bhPromise[id].value = SaturationError <=> bhStatus[id] = "rejected"
            /\ bhStatus[id] \in {"resolved", "failed"} =>
                  bhPromise[id].status \in {"resolved", "rejected"})

C39_Witness ==
    /\ bhNext > MaxCalls
    /\ \A id \in 1..MaxCalls : bhPromise[id].status \in {"resolved", "rejected"}
    /\ Cardinality(bhEverQueued) >= 2
    /\ \E id \in bhEverQueued : bhPromise[id] = [status |-> "rejected", value |-> TaskFailureOf(id)]
    /\ \E id \in bhEverQueued : bhPromise[id] = [status |-> "resolved", value |-> TaskValue(id)]

----------------------------------------------------------------------------
(* retryAsync(fn, options) *)

\* What fn can fail with: an Error instance or a thrown string, with a
\* message; ident tells the thrown values apart (the number of the invocation
\* that raised it; 0 for an Error created by retryAsync itself).
FailureKinds == {"Error", "string"}
FailureMessages == {"transient", "fatal"}
Failure(kind, msg, n) == [kind |-> kind, msg |-> msg, ident |-> n]

Undefined == [kind |-> "undefined", msg |-> "", ident |-> 0]
SuccessValue == [kind |-> "value", msg |-> "ok", ident |-> 0]

\* The shouldRetry predicates a caller can pass; "default" is () => true.
RetryPolicies == {"default", "transientOnly", "firstOnly"}

shouldRetry(opts, err, a) ==
    CASE opts.shouldRetry = "default" -> TRUE
      [] opts.shouldRetry = "transientOnly" -> err.msg = "transient"
      [] opts.shouldRetry = "firstOnly" -> a < 1

\* String(error) of a non-Error value.
String(v) == v.msg

\* A catch block that wraps whatever was thrown in a new Error.
normalise_always(error) == [kind |-> "Error", msg |-> String(error), ident |-> 0]

\* error instanceof Error ? error : new Error(String(error))
normalise(error) ==
    IF error.kind = "Error" THEN error
    ELSE [kind |-> "Error", msg |-> String(error), ident |-> 0]

\* A loop that gives up one attempt early.
exhausted_early(a, retries) == a + 1 >= retries

\* attempt === retries
exhausted(a, retries) == a = retries

\* A catch block that never asks shouldRetry.
givesUp_ignorePredicate(opts, err, a) == exhausted(a, opts.retries)

\* attempt === retries || !shouldRetry(lastError, attempt)
givesUp(opts, err, a) == exhausted(a, opts.retries) \/ ~shouldRetry(opts, err, a)

\* onRetry called with the 0-based attempt index.
retryNumber_zeroBased(a) == a

\* The second argument of onRetry: attempt + 1.
retryNumber(a) == a + 1

\* Math.min(currentDelay * backoffMultiplier, maxDelay)
nextDelay(cur, opts) == Min(cur * opts.backoffMultiplier, opts.maxDelay)

InitRT ==
    /\ rtOptions \in [retries : 0..MaxRetries,
                      delay : 1..MaxBaseDelay,
                      backoffMultiplier : 1..MaxMultiplier,
                      maxDelay : 1..MaxMaxDelay,
                      shouldRetry : RetryPolicies,
                      onRetry : BOOLEAN]
    /\ failsBefore \in 0..MaxFails
    /\ attempt = 0
    /\ currentDelay = 0
    /\ lastError = Undefined
    /\ rtPc = "idle"
    /\ rtResult = Undefined
    /\ rtInvocations = 0
    /\ rtThrown = <<>>
    /\ rtRetryLog = <<>>
    /\ rtDelays = <<>>

\* The call: the destructuring, currentDelay = delay, then the loop test for
\* attempt = 0 and the first fn(); `throw lastError` when the loop is skipped.
RetryCall ==
    /\ rtPc = "idle"
    /\ currentDelay' = rtOptions.delay
    /\ attempt' = 0
    /\ IF 0 <= rtOptions.retries
       THEN /\ rtPc' = "calling"
            /\ rtInvocations' = rtInvocations + 1
            /\ rtResult' = rtResult
       ELSE /\ rtPc' = "rejected"
            /\ rtResult' = lastError
            /\ rtInvocations' = rtInvocations
    /\ UNCHANGED <<rtOptions, lastError, failsBefore, rtThrown, rtRetryLog, rtDelays>>
    /\ UNCHANGED notRT

\* `return await fn()` with fn() resolved.
FnResolve ==
    /\ rtPc = "calling"
    /\ rtInvocations > failsBefore
    /\ rtPc' = "resolved"
    /\ rtResult' = SuccessValue
    /\ UNCHANGED <<rtOptions, attempt, currentDelay, lastError, failsBefore,
                   rtInvocations, rtThrown, rtRetryLog, rtDelays>>
    /\ UNCHANGED notRT

\* The catch block, up to `throw lastError` or `await sleep(currentDelay)`.
FnReject(kind, msg) ==
    /\ rtPc = "calling"
    /\ rtInvocations <= failsBefore
    /\ LET error == Failure(kind, msg, rtInvocations)
           err == normalise(error)
       IN  /\ rtThrown' = Append(rtThrown, error)
           /\ lastError' = err
           /\ IF givesUp(rtOptions, err, attempt)
              THEN /\ rtPc' = "rejected"
                   /\ rtResult' = err
                   /\ UNCHANGED <<rtRetryLog, rtDelays>>
              ELSE /\ rtRetryLog' = IF rtOptions.onRetry
                                    THEN Append(rtRetryLog, <<err, retryNumber(attempt)>>)
                                    ELSE rtRetryLog
                   /\ rtDelays' = Append(rtDelays, currentDelay)
                   /\ rtPc' = "sleeping"
                   /\ rtResult' = rtResult
    /\ UNCHANGED <<rtOptions, attempt, currentDelay, failsBefore, rtInvocations>>
    /\ UNCHANGED notRT

\* After `await sleep(currentDelay)`: the new currentDelay, attempt++, the
\* loop test and the next fn(); `throw lastError` when the loop ends.
SleepDone ==
    /\ rtPc = "sleeping"
    /\ currentDelay' = nextDelay(currentDelay, rtOptions)
    /\ attempt' = attempt + 1
    /\ IF attempt + 1 <= rtOptions.retries
       THEN /\ rtPc' = "calling"
            /\ rtInvocations' = rtInvocations + 1
            /\ rtResult' = rtResult
       ELSE /\ rtPc' = "rejected"
            /\ rtResult' = lastError
            /\ rtInvocations' = rtInvocations
    /\ UNCHANGED <<rtOptions, lastError, failsBefore, rtThrown, rtRetryLog, rtDelays>>
    /\ UNCHANGED notRT

----------------------------------------------------------------------------
(* retryAsync: properties *)

RtSettled == rtPc \in {"resolved", "rejected"}

\* The predicate accepted every failure it was asked about so far.
RtAllAccepted ==
    \A j \in 1..Len(rtThrown) :
        (j - 1) < rtOptions.retries => shouldRetry(rtOptions, normalise(rtThrown[j]), j - 1)

RECURSIVE Pow(_, _)
Pow(b, e) == IF e = 0 THEN 1 ELSE b * Pow(b, e - 1)

\* C16: for fn failing k times and then succeeding, with retries >= k (and a
\* predicate that accepts each of those failures), retryAsync resolves with
\* the success value after exactly k+1 invocations, and onRetry was called
\* exactly k times, with the numbers 1, 2, ..., k in that order.
C16_RetrySuccess ==
    (RtSettled /\ failsBefore <= rtOptions.retries /\ RtAllAccepted) =>
        /\ rtPc = "resolved"
        /\ rtResult = SuccessValue
        /\ rtInvocations = failsBefore + 1
        /\ Len(rtThrown) = failsBefore
        /\ rtOptions.onRetry =>
              /\ Len(rtRetryLog) = failsBefore
              /\ \A n \in 1..failsBefore :
                    /\ rtRetryLog[n][2] = n
                    /\ rtRetryLog[n][1].msg = rtThrown[n].msg

C16_Witness ==
    /\ rtPc = "resolved"
    /\ failsBefore = MaxFails
    /\ rtOptions.onRetry
    /\ Len(rtRetryLog) = MaxFails
    /\ rtOptions.shouldRetry = "transientOnly"

\* C17: for fn failing k times before succeeding, with retries < k (and a
\* predicate that accepts the failures before the last attempt), retryAsync
\* invokes fn exactly retries+1 times and rejects with the failure of the
\* (retries+1)-th invocation; with retries = 0 there is one invocation, no
\* onRetry call and no delay.
C17_RetryExhaustion ==
    /\ (RtSettled /\ failsBefore > rtOptions.retries /\ RtAllAccepted) =>
          /\ rtPc = "rejected"
          /\ rtInvocations = rtOptions.retries + 1
          /\ Len(rtThrown) = rtOptions.retries + 1
          /\ rtResult.msg = rtThrown[rtOptions.retries + 1].msg
          /\ rtThrown[rtOptions.retries + 1].ident = rtOptions.retries + 1
          /\ rtThrown[rtOptions.retries + 1].kind = "Error" =>
                rtResult = rtThrown[rtOptions.retries + 1]
    /\ (RtSettled /\ rtOptions.retries = 0) =>
          /\ rtInvocations = 1
          /\ rtRetryLog = <<>>
          /\ rtDelays = <<>>

C17_Witness ==
    /\ rtPc = "rejected"
    /\ rtOptions.retries = 2
    /\ failsBefore = MaxFails
    /\ rtInvocations = 3
    /\ rtOptions.onRetry
    /\ Len(rtRetryLog) = 2

\* C18: the delay slept before the (i+1)-th re-invocation (i = 0, 1, ...) is
\* min(delay * backoffMultiplier^i, maxDelay).
C18_BackoffSequence ==
    \A n \in 1..Len(rtDelays) :
        rtDelays[n] = Min(rtOptions.delay * Pow(rtOptions.backoffMultiplier, n - 1),
                          rtOptions.maxDelay)

\* C19: when fn fails on attempt a and shouldRetry(failure, a) is false, or a
\* is the final attempt, retryAsync rejects with that failure in the same
\* step, with no onRetry call, no sleep and no further invocation; once
\* rejected nothing more happens.
C19_PredicateStop ==
    /\ [][(Len(rtThrown') = Len(rtThrown) + 1
            /\ \/ attempt = rtOptions.retries
               \/ ~shouldRetry(rtOptions, lastError', attempt)) =>
            /\ rtPc' = "rejected"
            /\ rtResult'.msg = rtThrown'[Len(rtThrown')].msg
            /\ rtResult' = lastError'
            /\ rtRetryLog' = rtRetryLog
            /\ rtDelays' = rtDelays
            /\ rtInvocations' = rtInvocations]_vars
    /\ [][rtPc = "rejected" => UNCHANGED rtVars]_vars

C19_Witness ==
    /\ rtPc = "rejected"
    /\ rtOptions.shouldRetry = "transientOnly"
    /\ rtOptions.retries = MaxRetries
    /\ Len(rtThrown) = 2
    /\ rtThrown[2].msg = "fatal"
    /\ rtOptions.onRetry
    /\ Len(rtRetryLog) = 1
    /\ Len(rtDelays) = 1

\* C20 (as stated): whenever retryAsync rejects, it rejects with exactly the
\* value the last fn() invocation failed with, whatever kind of value it is.
C20_Verbatim ==
    rtPc = "rejected" => rtResult = rtThrown[Len(rtThrown)]

\* C20 (amended): whenever retryAsync rejects, it rejects with exactly the
\* last failure when that is an Error instance, and with a new Error whose
\* message is String(failure) when it is not.
C20_VerbatimErrors ==
    rtPc = "rejected" =>
        LET last == rtThrown[Len(rtThrown)] IN
        IF last.kind = "Error"
        THEN rtResult = last
        ELSE /\ rtResult.kind = "Error"
             /\ rtResult.msg = last.msg
             /\ rtResult.ident = 0

C20_Witness ==
    /\ rtPc = "rejected"
    /\ Len(rtThrown) = 2
    /\ rtThrown[1].kind = "string"
    /\ rtThrown[2].kind = "Error"
    /\ rtResult = rtThrown[2]

----------------------------------------------------------------------------
(* withTimeout(promise, ms, message) *)

\* What a promise can hold: a value, a failure raised by the caller's code,
\* or an ApiError.
WtValue(v) == [kind |-> "value", statusCode |-> 0, message |-> v]
WtFailure(e) == [kind |-> "Error", statusCode |-> 0, message |-> e]
WtNothing == [kind |-> "none", statusCode |-> 0, message |-> ""]

WtValues == {"v1", "v2"}
WtMessages == {[given |-> FALSE, text |-> ""],
               [given |-> TRUE, text |-> ""],
               [given |-> TRUE, text |-> "Data fetch timed out"]}

\* message || `Operation timed out after ${ms}ms`
timeoutMessage(m, ms) ==
    IF m.given /\ m.text # "" THEN m.text
    ELSE "Operation timed out after " \o ToString(ms) \o "ms"

\* new ApiError(408, ...), the rejection of timeoutPromise
TimeoutError(m, ms) ==
    [kind |-> "ApiError", statusCode |-> 408, message |-> timeoutMessage(m, ms)]

\* A race whose result follows the latest contender to settle.
raceSettle_latest(outcome, settlement) == settlement

\* Promise.race([promise, timeoutPromise]) followed by the return or the
\* throw of withTimeout: the first settlement is the outcome, later
\* settlements are ignored.
raceSettle(outcome, settlement) ==
    IF outcome.status = "pending" THEN settlement ELSE outcome

\* A clearTimeout placed after the await instead of in a finally block.
timerAfterExit_onSuccess(timer, how) ==
    IF timer = "pending" /\ how = "resolved" THEN "cleared" ELSE timer

\* finally { if (timeoutId) clearTimeout(timeoutId) }: a pending timer is
\* cancelled; on a timer that has fired clearTimeout does nothing.
timerAfterExit(timer, how) ==
    IF timer = "pending" THEN "cleared" ELSE timer

InitWT ==
    /\ wtMs \in 0..MaxMs
    /\ wtMessage \in WtMessages
    /\ wtPromise = [status |-> "pending", value |-> WtNothing]
    /\ wtTimer = "none"
    /\ wtPc = "idle"
    /\ wtOutcome = [status |-> "idle", value |-> WtNothing]
    /\ wtNow = 0
    /\ wtStart = 0
    /\ wtEvents = <<>>

\* The race settles with `settlement`: the await resumes, withTimeout
\* returns or throws, and the finally block deals with the timer.
WTExit(settlement, timer) ==
    /\ wtOutcome' = raceSettle([status |-> "pending", value |-> WtNothing], settlement)
    /\ wtTimer' = timerAfterExit(timer, settlement.status)
    /\ wtPc' = "settled"

\* The call: the timer is set and the race awaited.  A promise that has
\* already settled wins the race before any timer can run.
WTCall ==
    /\ wtPc = "idle"
    /\ wtStart' = wtNow
    /\ IF wtPromise.status = "pending"
       THEN /\ wtTimer' = "pending"
            /\ wtPc' = "awaiting"
            /\ wtOutcome' = [status |-> "pending", value |-> WtNothing]
       ELSE WTExit(wtPromise, "pending")
    /\ UNCHANGED <<wtMs, wtMessage, wtPromise, wtNow, wtEvents>>
    /\ UNCHANGED notWT

\* The promise argument settles (status: resolved with a value, or rejected
\* with a failure), before the call, during the race or after the timeout.
WTPromiseSettle(status, text) ==
    /\ wtPromise.status = "pending"
    /\ LET settlement == [status |-> status,
                          value |-> IF status = "resolved" THEN WtValue(text)
                                    ELSE WtFailure(text)]
       IN  /\ wtPromise' = settlement
           /\ wtEvents' = Append(wtEvents, [kind |-> status, at |-> wtNow])
           /\ IF wtPc = "awaiting"
              THEN WTExit(settlement, wtTimer)
              ELSE /\ wtOutcome' = IF wtPc = "settled"
                                   THEN raceSettle(wtOutcome, settlement)
                                   ELSE wtOutcome
                   /\ UNCHANGED <<wtTimer, wtPc>>
    /\ UNCHANGED <<wtMs, wtMessage, wtNow, wtStart>>
    /\ UNCHANGED notWT

\* The timer callback runs, ms or more after the call: timeoutPromise rejects
\* with the 408 ApiError.
WTTimerFire ==
    /\ wtTimer = "pending"
    /\ wtNow >= wtStart + wtMs
    /\ wtEvents' = Append(wtEvents, [kind |-> "fire", at |-> wtNow])
    /\ WTExit([status |-> "rejected", value |-> TimeoutError(wtMessage, wtMs)], "fired")
    /\ UNCHANGED <<wtMs, wtMessage, wtPromise, wtNow, wtStart>>
    /\ UNCHANGED notWT

\* One millisecond passes.  A timer may run late, never early.
WTTick ==
    /\ wtNow < MaxWtTime
    /\ wtNow' = wtNow + 1
    /\ UNCHANGED <<wtMs, wtMessage, wtPromise, wtTimer, wtPc, wtOutcome, wtStart,
                   wtEvents>>
    /\ UNCHANGED notWT

----------------------------------------------------------------------------
(* withTimeout: properties *)

WtSettled == wtOutcome.status \in {"resolved", "rejected"}

\* C21: the outcome of withTimeout is that of the first of the promise and
\* the timer to complete: the promise's value, the promise's own failure, or
\* the 408 ApiError raised when the timer runs, ms or more after the call; a
\* promise completing after the timeout changes nothing.
C21_FirstWins ==
    /\ [](WtSettled =>
            /\ wtEvents # <<>>
            /\ LET first == wtEvents[1] IN
                /\ first.kind = "resolved" =>
                      /\ wtOutcome = wtPromise
                      /\ wtOutcome.status = "resolved"
                      /\ wtOutcome.value.kind = "value"
                /\ first.kind = "rejected" =>
                      /\ wtOutcome = wtPromise
                      /\ wtOutcome.status = "rejected"
                      /\ wtOutcome.value.kind = "Error"
                /\ first.kind = "fire" =>
                      /\ wtOutcome.status = "rejected"
                      /\ wtOutcome.value = TimeoutError(wtMessage, wtMs)
                      /\ wtOutcome.value.statusCode = 408
                      /\ first.at >= wtStart + wtMs)
    /\ [](wtPc = "awaiting" => wtEvents = <<>> /\ wtOutcome.status = "pending")
    /\ [][WtSettled => wtOutcome' = wtOutcome]_vars

C21_Witness ==
    /\ Len(wtEvents) = 2
    /\ wtEvents[1].kind = "fire"
    /\ wtEvents[2].kind = "resolved"
    /\ wtPromise.status = "resolved"
    /\ wtOutcome.status = "rejected"
    /\ wtOutcome.value.statusCode = 408
    /\ wtMs = MaxMs

\* C22: when withTimeout has settled, by success, by the promise's failure or
\* by timeout, its timer is cancelled or has fired, and it does not fire later.
C22_TimerCleanup ==
    /\ [](wtPc = "settled" =>
            /\ WtSettled
            /\ wtTimer \in {"cleared", "fired"}
            /\ (wtTimer = "fired" <=> wtOutcome.value.statusCode = 408))
    /\ [][wtPc = "settled" => wtTimer' = wtTimer]_vars

C22_Witness ==
    /\ wtPc = "settled"
    /\ wtOutcome.status = "rejected"
    /\ wtOutcome.value.kind = "Error"
    /\ wtTimer = "cleared"
    /\ wtNow > wtStart + wtMs

----------------------------------------------------------------------------
(* sequence(tasks) *)

SeqValues == {"a", "b"}

NoResult == [status |-> "idle", results |-> <<>>, failure |-> ""]

\* A loop that puts each result in front of the earlier ones.
push_front(res, v) == <<v>> \o res

\* results.push(result)
push(res, v) == Append(res, v)

InitSQ ==
    /\ sqTasks \in 0..MaxSeqTasks
    /\ sqIndex = 0
    /\ sqResults = <<>>
    /\ sqPc = "idle"
    /\ sqOutcome = NoResult
    /\ sqStarted = <<>>
    /\ sqCompleted = <<>>

\* The call: the loop reaches `await task()` of tasks[0], or, with no task,
\* returns the empty results.
SeqCall ==
    /\ sqPc = "idle"
    /\ IF sqTasks = 0
       THEN /\ sqPc' = "done"
            /\ sqOutcome' = [status |-> "resolved", results |-> sqResults, failure |-> ""]
            /\ UNCHANGED sqStarted
       ELSE /\ sqPc' = "awaiting"
            /\ sqOutcome' = [NoResult EXCEPT !.status = "pending"]
            /\ sqStarted' = Append(sqStarted, 0)
    /\ UNCHANGED <<sqTasks, sqIndex, sqResults, sqCompleted>>
    /\ UNCHANGED notSQ

\* The awaited task resolved with v: push, then the next iteration invokes
\* the next task, or the loop ends and the results are returned.
SeqTaskResolve(v) ==
    /\ sqPc = "awaiting"
    /\ LET res == push(sqResults, v) IN
        /\ sqResults' = res
        /\ sqCompleted' = Append(sqCompleted, [index |-> sqIndex, ok |-> TRUE, value |-> v])
        /\ IF sqIndex + 1 < sqTasks
           THEN /\ sqIndex' = sqIndex + 1
                /\ sqStarted' = Append(sqStarted, sqIndex + 1)
                /\ UNCHANGED <<sqPc, sqOutcome>>
           ELSE /\ sqPc' = "done"
                /\ sqOutcome' = [status |-> "resolved", results |-> res, failure |-> ""]
                /\ UNCHANGED <<sqIndex, sqStarted>>
    /\ UNCHANGED sqTasks
    /\ UNCHANGED notSQ

\* The awaited task rejected with e: the await throws out of the loop and
\* sequence rejects with e.
SeqTaskReject(e) ==
    /\ sqPc = "awaiting"
    /\ sqCompleted' = Append(sqCompleted, [index |-> sqIndex, ok |-> FALSE, value |-> e])
    /\ sqPc' = "done"
    /\ sqOutcome' = [status |-> "rejected", results |-> <<>>, failure |-> e]
    /\ UNCHANGED <<sqTasks, sqIndex, sqResults, sqStarted>>
    /\ UNCHANGED notSQ

----------------------------------------------------------------------------
(* sequence: properties *)

\* C29: the tasks are invoked in input order, each only when all the tasks
\* before it have resolved, so at most one is in flight; the first failure is
\* what sequence rejects with, and no later task is invoked; when all
\* resolve, the result holds the values in input order.
C29_Sequential ==
    /\ \A k \in 1..Len(sqStarted) : sqStarted[k] = k - 1
    /\ Len(sqStarted) - Len(sqCompleted) \in {0, 1}
    /\ \A k \in 1..Len(sqCompleted) : sqCompleted[k].index = k - 1
    /\ \A k \in 1..Len(sqStarted) :
          \A j \in 1..(k - 1) : j <= Len(sqCompleted) /\ sqCompleted[j].ok
    /\ \A k \in 1..Len(sqCompleted) :
          ~sqCompleted[k].ok =>
              /\ k = Len(sqCompleted)
              /\ Len(sqStarted) = k
              /\ sqOutcome.status = "rejected"
              /\ sqOutcome.failure = sqCompleted[k].value
    /\ sqOutcome.status = "rejected" =>
          Len(sqCompleted) > 0 /\ ~sqCompleted[Len(sqCompleted)].ok
    /\ sqOutcome.status = "resolved" =>
          /\ Len(sqOutcome.results) = sqTasks
          /\ Len(sqCompleted) = sqTasks
          /\ \A k \in 1..sqTasks : /\ sqCompleted[k].ok
                                   /\ sqOutcome.results[k] = sqCompleted[k].value
    /\ (Len(sqCompleted) = sqTasks /\ sqPc # "idle"
          /\ \A k \in 1..sqTasks : sqCompleted[k].ok) => sqOutcome.status = "resolved"

C29_Witness ==
    /\ sqOutcome.status = "resolved"
    /\ sqTasks = MaxSeqTasks
    /\ sqOutcome.results[1] # sqOutcome.results[sqTasks]
    /\ sqOutcome.results[1] = sqCompleted[1].value

----------------------------------------------------------------------------
(* raceSuccess(tasks) *)

RaceIndices == 0..(rsTasks - 1)

NoRace == [status |-> "idle", value |-> <<>>, message |-> "", errors |-> <<>>]

\* A handler that appends the failure (errors.push(error)).
errorSlot_push(index, failedSoFar) == failedSoFar

\* errors[index] = error
errorSlot(index, failedSoFar) == index

\* resolve(value) / reject(reason) of the promise raceSuccess returns: only
\* the first call has an effect.
rsSettle(outcome, settlement) ==
    IF outcome.status = "pending" THEN settlement ELSE outcome

\* new Error('All tasks failed') with .errors = errors
AggregateError(errs) ==
    [status |-> "rejected", value |-> <<>>, message |-> "All tasks failed",
     errors |-> errs]

InitRS ==
    /\ rsTasks \in 0..MaxRaceTasks
    /\ rsErrors = [i \in 0..(MaxRaceTasks - 1) |-> Hole]
    /\ rsRemaining = 0
    /\ rsOutcome = NoRace
    /\ rsStatus = [i \in 0..(MaxRaceTasks - 1) |-> "none"]
    /\ rsOrder = <<>>

\* The call: with no task the promise is rejected at once; otherwise every
\* task is invoked, in input order.
RaceCall ==
    /\ rsOutcome.status = "idle"
    /\ rsRemaining' = rsTasks
    /\ IF rsTasks = 0
       THEN /\ rsOutcome' = [NoRace EXCEPT !.status = "rejected",
                                           !.message = "No tasks provided"]
            /\ UNCHANGED rsStatus
       ELSE /\ rsOutcome' = [NoRace EXCEPT !.status = "pending"]
            /\ rsStatus' = [i \in 0..(MaxRaceTasks - 1) |->
                               IF i \in RaceIndices THEN "running" ELSE "none"]
    /\ UNCHANGED <<rsTasks, rsErrors, rsOrder>>
    /\ UNCHANGED notRS

\* tasks[i]() resolved: .then(resolve)
RaceTaskResolve(i) ==
    /\ rsStatus[i] = "running"
    /\ rsStatus' = [rsStatus EXCEPT ![i] = "ok"]
    /\ rsOrder' = Append(rsOrder, [index |-> i, ok |-> TRUE])
    /\ rsOutcome' = rsSettle(rsOutcome, [NoRace EXCEPT !.status = "resolved",
                                                        !.value = TaskValue(i)])
    /\ UNCHANGED <<rsTasks, rsErrors, rsRemaining>>
    /\ UNCHANGED notRS

\* tasks[i]() rejected: the catch handler stores the failure and counts it,
\* and rejects with the aggregate when no task remains.
RaceTaskReject(i) ==
    /\ rsStatus[i] = "running"
    /\ rsStatus' = [rsStatus EXCEPT ![i] = "failed"]
    /\ rsOrder' = Append(rsOrder, [index |-> i, ok |-> FALSE])
    /\ LET errs == [rsErrors EXCEPT ![errorSlot(i, rsTasks - rsRemaining)] =
                       TaskFailureOf(i)]
       IN  /\ rsErrors' = errs
           /\ rsRemaining' = rsRemaining - 1
           /\ rsOutcome' = IF rsRemaining - 1 = 0
                           THEN rsSettle(rsOutcome,
                                         AggregateError([k \in RaceIndices |-> errs[k]]))
                           ELSE rsOutcome
    /\ UNCHANGED rsTasks
    /\ UNCHANGED notRS

----------------------------------------------------------------------------
(* raceSuccess: properties *)

RaceSucceeded == {k \in 1..Len(rsOrder) : rsOrder[k].ok}

\* The first task to succeed, in completion order.
RaceFirstSuccess ==
    rsOrder[CHOOSE k \in RaceSucceeded : \A j \in RaceSucceeded : k <= j].index

\* C30: for one task or more, raceSuccess resolves with the value of the
\* first task to succeed, whatever fails before or after it; it rejects only
\* when every task has failed, and then the aggregate holds one failure per
\* task, entry i being the failure of tasks[i].
C30_FirstSuccess ==
    rsTasks >= 1 =>
        /\ RaceSucceeded # {} =>
              /\ rsOutcome.status = "resolved"
              /\ rsOutcome.value = TaskValue(RaceFirstSuccess)
        /\ rsOutcome.status = "resolved" => RaceSucceeded # {}
        /\ rsOutcome.status = "rejected" <=>
              \A i \in RaceIndices : rsStatus[i] = "failed"
        /\ rsOutcome.status = "rejected" =>
              /\ rsOutcome.message = "All tasks failed"
              /\ DOMAIN rsOutcome.errors = RaceIndices
              /\ \A i \in RaceIndices : rsOutcome.errors[i] = TaskFailureOf(i)

C30_Witness ==
    /\ rsTasks = MaxRaceTasks
    /\ rsOutcome.status = "rejected"
    /\ rsOrder[1].index = rsTasks - 1
    /\ rsOutcome.errors[0] = TaskFailureOf(0)
    /\ rsOutcome.errors[rsTasks - 1] = TaskFailureOf(rsTasks - 1)

----------------------------------------------------------------------------
(* batch(batchSize, processor)(items) *)

\* The output the processor gives for one input item.
Processed(item) == <<"out", item>>

\* What a processor can return for a chunk: one output per item, the outputs
\* without the first one, or no output at all.
OutputKinds == {"map", "dropFirst", "empty"}

ProcessorOutput(kind, chunk) ==
    LET all == [k \in 1..Len(chunk) |-> Processed(chunk[k])]
    IN  IF kind = "map" THEN all
        ELSE IF kind = "dropFirst" /\ Len(all) > 0 THEN Tail(all)
        ELSE <<>>

\* slice that leaves out the last item of the range.
slice_short(items, from, to) ==
    SubSeq(items, from + 1, Min(to - 1, Len(items)))

\* items.slice(from, to): the items at the 0-based positions from .. to - 1.
slice(items, from, to) ==
    SubSeq(items, from + 1, Min(to, Len(items)))

NoBatch == [status |-> "idle", value |-> <<>>]

InitBT ==
    /\ btSize \in 1..MaxBatchSize
    /\ btItems \in {[k \in 1..n |-> k] : n \in 0..MaxItems}
    /\ btI = 0
    /\ btResults = <<>>
    /\ btPc = "idle"
    /\ btOutcome = NoBatch
    /\ btCalls = <<>>

\* The loop from its test at position i: the next chunk is handed to the
\* processor, or the results are returned.
BatchLoop(i, res, calls) ==
    /\ btI' = i
    /\ btResults' = res
    /\ IF i < Len(btItems)
       THEN /\ btCalls' = Append(calls, [chunk |-> slice(btItems, i, i + btSize),
                                          output |-> <<>>, done |-> FALSE])
            /\ btPc' = "awaiting"
            /\ btOutcome' = [status |-> "pending", value |-> <<>>]
       ELSE /\ btCalls' = calls
            /\ btPc' = "done"
            /\ btOutcome' = [status |-> "resolved", value |-> res]

\* The call of the function batch returned, up to the first await.
BatchCall ==
    /\ btPc = "idle"
    /\ BatchLoop(0, <<>>, btCalls)
    /\ UNCHANGED <<btSize, btItems>>
    /\ UNCHANGED notBT

\* processor(chunk) resolved: results.push(...chunkResults), i += batchSize.
BatchChunkResolve(kind) ==
    /\ btPc = "awaiting"
    /\ LET n == Len(btCalls)
           out == ProcessorOutput(kind, btCalls[n].chunk)
       IN  BatchLoop(btI + btSize, btResults \o out,
                     [btCalls EXCEPT ![n] = [@ EXCEPT !.output = out, !.done = TRUE]])
    /\ UNCHANGED <<btSize, btItems>>
    /\ UNCHANGED notBT

\* processor(chunk) rejected: the batch function rejects with that failure.
BatchChunkReject(e) ==
    /\ btPc = "awaiting"
    /\ btPc' = "done"
    /\ btOutcome' = [status |-> "rejected", value |-> <<e>>]
    /\ UNCHANGED <<btSize, btItems, btI, btResults, btCalls>>
    /\ UNCHANGED notBT

----------------------------------------------------------------------------
(* batch: properties *)

\* ceil(n / b)
CeilDiv(n, b) == (n + b - 1) \div b

RECURSIVE ConcatOutputs(_, _)
ConcatOutputs(calls, k) ==
    IF k = 0 THEN <<>> ELSE ConcatOutputs(calls, k - 1) \o calls[k].output

\* C31: the processor is invoked on the consecutive chunks of batchSize
\* items, in input order, each chunk only when the processing of the chunk
\* before it has completed; when batch resolves the processor has been
\* invoked ceil(n / batchSize) times and the result is the concatenation of
\* the chunk outputs in chunk order.
C31_BatchChunking ==
    LET n == Len(btItems) IN
    /\ Len(btCalls) <= CeilDiv(n, btSize)
    /\ \A k \in 1..Len(btCalls) :
          /\ btCalls[k].chunk =
                 [j \in 1..(Min(k * btSize, n) - (k - 1) * btSize) |->
                     btItems[(k - 1) * btSize + j]]
          /\ Len(btCalls[k].chunk) >= 1
          /\ k < Len(btCalls) => btCalls[k].done
    /\ btOutcome.status = "resolved" =>
          /\ Len(btCalls) = CeilDiv(n, btSize)
          /\ \A k \in 1..Len(btCalls) : btCalls[k].done
          /\ btOutcome.value = ConcatOutputs(btCalls, Len(btCalls))
    /\ btPc = "done" => btOutcome.status \in {"resolved", "rejected"}

C31_Witness ==
    /\ btOutcome.status = "resolved"
    /\ Len(btItems) = MaxItems
    /\ btSize = MaxBatchSize
    /\ Len(btCalls) = CeilDiv(MaxItems, MaxBatchSize)
    /\ Len(btCalls[Len(btCalls)].chunk) < btSize
    /\ Len(btOutcome.value) = MaxItems - 1

----------------------------------------------------------------------------
(* once(fn) *)

\* What the k-th invocation of fn resolves with, and what it rejects with.
FnResult(k) == <<"result", k>>
FnFailure(k) == <<"failure", k>>

\* `let result: T;` before any assignment.
Unassigned == <<"undefined", 0>>

NoCall == [pc |-> "none", inv |-> 0, value |-> Unassigned]

InitON ==
    /\ onExecuted = FALSE
    /\ onResult = Unassigned
    /\ onCalls = [c \in 1..MaxOnceCalls |-> NoCall]
    /\ onNext = 1
    /\ onInvocations = 0

\* A call of the wrapped function: with executed false it invokes fn and
\* awaits it, otherwise it returns the stored result.
OnceCall ==
    /\ onNext <= MaxOnceCalls
    /\ onNext' = onNext + 1
    /\ IF ~onExecuted
       THEN /\ onInvocations' = onInvocations + 1
            /\ onCalls' = [onCalls EXCEPT ![onNext] =
                              [pc |-> "awaiting", inv |-> onInvocations + 1,
                               value |-> Unassigned]]
       ELSE /\ onCalls' = [onCalls EXCEPT ![onNext] =
                              [pc |-> "returned", inv |-> 0, value |-> onResult]]
            /\ UNCHANGED onInvocations
    /\ UNCHANGED <<onExecuted, onResult>>
    /\ UNCHANGED notON

\* The fn() awaited by call c resolved: result = ..., executed = true,
\* return result.
OnceFnResolve(c) ==
    /\ onCalls[c].pc = "awaiting"
    /\ onResult' = FnResult(onCalls[c].inv)
    /\ onExecuted' = TRUE
    /\ onCalls' = [onCalls EXCEPT ![c] = [@ EXCEPT !.pc = "returned",
                                                   !.value = FnResult(onCalls[c].inv)]]
    /\ UNCHANGED <<onNext, onInvocations>>
    /\ UNCHANGED notON

\* The fn() awaited by call c rejected: the call rejects, executed stays false.
OnceFnReject(c) ==
    /\ onCalls[c].pc = "awaiting"
    /\ onCalls' = [onCalls EXCEPT ![c] = [@ EXCEPT !.pc = "threw",
                                                   !.value = FnFailure(onCalls[c].inv)]]
    /\ UNCHANGED <<onExecuted, onResult, onNext, onInvocations>>
    /\ UNCHANGED notON

----------------------------------------------------------------------------
(* once: properties *)

\* C32: fn is executed only once, and every call returns the result of that
\* single execution.
C32_OnceOnly ==
    /\ onInvocations <= 1
    /\ \A c \in 1..MaxOnceCalls :
          onCalls[c].pc = "returned" => onCalls[c].value = FnResult(1)

----------------------------------------------------------------------------
(* debounce(fn, ms) *)

NoSettlement == [status |-> "none", by |-> 0, ok |-> FALSE]

InitDB ==
    /\ dbTimer = 0
    /\ dbPending = 0
    /\ dbPromise = [p \in 1..MaxDebounceCalls |-> NoSettlement]
    /\ dbRunning = {}
    /\ dbCalls = [c \in 1..MaxDebounceCalls |-> 0]
    /\ dbBurst = [c \in 1..MaxDebounceCalls |-> 0]
    /\ dbNext = 1

\* A call of the debounced function: the pending timer is cleared, a pending
\* promise is created unless there is one, a timer holding the call's args is
\* set, and the pending promise is returned.
DebounceCall ==
    /\ dbNext <= MaxDebounceCalls
    /\ dbNext' = dbNext + 1
    /\ dbTimer' = dbNext
    /\ LET p == IF dbPending = 0 THEN dbNext ELSE dbPending IN
        /\ dbPending' = p
        /\ dbPromise' = IF dbPending = 0
                        THEN [dbPromise EXCEPT ![p] = [@ EXCEPT !.status = "pending"]]
                        ELSE dbPromise
        /\ dbCalls' = [dbCalls EXCEPT ![dbNext] = p]
    /\ dbBurst' = [dbBurst EXCEPT ![dbNext] =
                      IF dbTimer = 0
                      THEN IF dbNext = 1 THEN 1 ELSE dbBurst[dbNext - 1] + 1
                      ELSE dbBurst[dbTimer]]
    /\ UNCHANGED dbRunning
    /\ UNCHANGED notDB

\* The timer callback runs, up to `await fn(...args)`.
DebounceTimerFire ==
    /\ dbTimer # 0
    /\ dbRunning' = dbRunning \cup {dbTimer}
    /\ dbTimer' = 0
    /\ UNCHANGED <<dbPending, dbPromise, dbCalls, dbBurst, dbNext>>
    /\ UNCHANGED notDB

\* fn(...args) of call k settled: pendingResolve?.(result) or
\* pendingReject?.(error), then the finally block forgets the pending promise.
DebounceFnDone(k, ok) ==
    /\ k \in dbRunning
    /\ dbRunning' = dbRunning \ {k}
    /\ dbPromise' = IF dbPending # 0 /\ dbPromise[dbPending].status = "pending"
                    THEN [dbPromise EXCEPT ![dbPending] =
                             [status |-> IF ok THEN "resolved" ELSE "rejected",
                              by |-> k, ok |-> ok]]
                    ELSE dbPromise
    /\ dbPending' = 0
    /\ UNCHANGED <<dbTimer, dbCalls, dbBurst, dbNext>>
    /\ UNCHANGED notDB

----------------------------------------------------------------------------
(* debounce: properties *)

DbCalled == 1..(dbNext - 1)

\* The latest call of the burst of call c.
LatestOfBurst(c) ==
    CHOOSE k \in DbCalled :
        /\ dbBurst[k] = dbBurst[c]
        /\ \A j \in DbCalled : dbBurst[j] = dbBurst[c] => j <= k

\* C40: a settled promise of a debounced call holds the outcome of the fn
\* invocation made with the arguments of the latest call of that call's
\* burst, never the outcome of an invocation of an earlier burst.
C40_DebounceAttribution ==
    \A c \in DbCalled :
        dbPromise[dbCalls[c]].status \in {"resolved", "rejected"} =>
            /\ dbBurst[dbPromise[dbCalls[c]].by] = dbBurst[c]
            /\ dbPromise[dbCalls[c]].by = LatestOfBurst(c)

----------------------------------------------------------------------------
(* Specifications *)

\* A breaker with the default successThreshold and shouldTrip, left unused.
IdleCB ==
    /\ InitCB
    /\ options = [failureThreshold |-> 1, successThreshold |-> 2,
                  resetTimeout |-> 1, shouldTrip |-> "default"]

\* A mutex (semaphore(1)), left unused.
IdleSem ==
    /\ InitSem
    /\ limit = 1

\* parallelLimit not called.
IdlePL ==
    /\ InitPL
    /\ plTasks = 0
    /\ plLimit = 1

\* A bulkhead of concurrency 1 with the default maxQueue, left unused.
IdleBH ==
    /\ InitBH
    /\ concurrency = 1
    /\ maxQueue = Infinity

\* retryAsync not called.
IdleRT ==
    /\ InitRT
    /\ rtOptions = [retries |-> 0, delay |-> 1, backoffMultiplier |-> 1,
                    maxDelay |-> 1, shouldRetry |-> "default", onRetry |-> FALSE]
    /\ failsBefore = 0

\* withTimeout, sequence and raceSuccess never called.
IdleWT ==
    /\ InitWT
    /\ wtMs = 0
    /\ wtMessage = [given |-> FALSE, text |-> ""]

IdleSQ ==
    /\ InitSQ
    /\ sqTasks = 0

IdleRS ==
    /\ InitRS
    /\ rsTasks = 0

IdleBT ==
    /\ InitBT
    /\ btSize = 1
    /\ btItems = <<>>

IdleON == InitON

IdleDB == InitDB

NextCB ==
    \/ Execute
    \/ TaskSuccess
    \/ \E e \in TaskErrors : TaskFailure(e)
    \/ GetState
    \/ Tick

InitSpecCB == InitCB /\ IdleSem /\ IdlePL /\ IdleBH /\ IdleRT /\ IdleWT /\ IdleSQ /\ IdleRS /\ IdleBT
    /\ IdleON /\ IdleDB

SpecCB == InitSpecCB /\ [][NextCB]_vars

\* The breaker in an environment that recovers: time advances, callers keep
\* calling execute, and every invoked task completes.
NextCBLive ==
    \/ Execute
    \/ TaskSuccess
    \/ \E e \in TaskErrors : TaskFailureUnhealthy(e)
    \/ GetState
    \/ Tick
    \/ TickRecover

FairCBLive ==
    /\ WF_vars(Tick \/ TickRecover)
    /\ SF_vars(Execute)
    /\ WF_vars(TaskSuccess \/ \E e \in TaskErrors : TaskFailureUnhealthy(e))

SpecCBLive == InitSpecCB /\ [][NextCBLive]_vars /\ FairCBLive

NextSem ==
    \/ Acquire
    \/ Release

InitSpecSem == InitSem /\ IdleCB /\ IdlePL /\ IdleBH /\ IdleRT /\ IdleWT /\ IdleSQ /\ IdleRS /\ IdleBT
    /\ IdleON /\ IdleDB

SpecSem == InitSpecSem /\ [][NextSem]_vars

NextPL ==
    \/ PLCall
    \/ \E w \in 1..MaxPLLimit : PLTaskResolve(w)
    \/ \E w \in 1..MaxPLLimit : PLTaskReject(w)

InitSpecPL == InitPL /\ IdleCB /\ IdleSem /\ IdleBH /\ IdleRT /\ IdleWT /\ IdleSQ /\ IdleRS /\ IdleBT
    /\ IdleON /\ IdleDB

SpecPL == InitSpecPL /\ [][NextPL]_vars

NextBH ==
    \/ BHCall
    \/ \E id \in 1..MaxCalls : \E ok \in BOOLEAN : BHTaskDone(id, ok)

InitSpecBH == InitBH /\ IdleCB /\ IdleSem /\ IdlePL /\ IdleRT /\ IdleWT /\ IdleSQ /\ IdleRS /\ IdleBT
    /\ IdleON /\ IdleDB

SpecBH == InitSpecBH /\ [][NextBH]_vars

\* The bulkhead with tasks that all complete.
FairBH == \A id \in 1..MaxCalls : WF_vars(\E ok \in BOOLEAN : BHTaskDone(id, ok))

SpecBHLive == InitSpecBH /\ [][NextBH]_vars /\ FairBH

NextRT ==
    \/ RetryCall
    \/ FnResolve
    \/ \E kind \in FailureKinds, msg \in FailureMessages : FnReject(kind, msg)
    \/ SleepDone

InitSpecRT == InitRT /\ IdleCB /\ IdleSem /\ IdlePL /\ IdleBH /\ IdleWT /\ IdleSQ /\ IdleRS /\ IdleBT
    /\ IdleON /\ IdleDB

SpecRT == InitSpecRT /\ [][NextRT]_vars

NextWT ==
    \/ WTCall
    \/ \E v \in WtValues : WTPromiseSettle("resolved", v)
    \/ \E e \in TaskErrors : WTPromiseSettle("rejected", e)
    \/ WTTimerFire
    \/ WTTick

IdleOthers == IdleCB /\ IdleSem /\ IdlePL /\ IdleBH /\ IdleRT

InitSpecWT == InitWT /\ IdleOthers /\ IdleSQ /\ IdleRS /\ IdleBT
    /\ IdleON /\ IdleDB

SpecWT == InitSpecWT /\ [][NextWT]_vars

NextSQ ==
    \/ SeqCall
    \/ \E v \in SeqValues : SeqTaskResolve(v)
    \/ \E e \in TaskErrors : SeqTaskReject(e)

InitSpecSQ == InitSQ /\ IdleOthers /\ IdleWT /\ IdleRS /\ IdleBT
    /\ IdleON /\ IdleDB

SpecSQ == InitSpecSQ /\ [][NextSQ]_vars

NextRS ==
    \/ RaceCall
    \/ \E i \in 0..(MaxRaceTasks - 1) : RaceTaskResolve(i)
    \/ \E i \in 0..(MaxRaceTasks - 1) : RaceTaskReject(i)

InitSpecRS == InitRS /\ IdleOthers /\ IdleWT /\ IdleSQ /\ IdleBT
    /\ IdleON /\ IdleDB

SpecRS == InitSpecRS /\ [][NextRS]_vars

IdleEarlier == IdleOthers /\ IdleWT /\ IdleSQ /\ IdleRS

NextBT ==
    \/ BatchCall
    \/ \E kind \in OutputKinds : BatchChunkResolve(kind)
    \/ \E e \in TaskErrors : BatchChunkReject(e)

InitSpecBT == InitBT /\ IdleEarlier /\ IdleON /\ IdleDB

NextON ==
    \/ OnceCall
    \/ \E c \in 1..MaxOnceCalls : OnceFnResolve(c)
    \/ \E c \in 1..MaxOnceCalls : OnceFnReject(c)

InitSpecON == InitON /\ IdleEarlier /\ IdleBT /\ IdleDB

SpecON == InitSpecON /\ [][NextON]_vars

NextDB ==
    \/ DebounceCall
    \/ DebounceTimerFire
    \/ \E k \in 1..MaxDebounceCalls : \E ok \in BOOLEAN : DebounceFnDone(k, ok)

InitSpecDB == InitDB /\ IdleEarlier /\ IdleBT /\ IdleON

SpecDB == InitSpecDB /\ [][NextDB]_vars

SpecBT == InitSpecBT /\ [][NextBT]_vars

Init == InitCB /\ InitSem /\ InitPL /\ InitBH /\ InitRT /\ InitWT /\ InitSQ /\ InitRS
        /\ InitBT /\ InitON /\ InitDB

Next == NextCB \/ NextSem \/ NextPL \/ NextBH \/ NextRT \/ NextWT \/ NextSQ \/ NextRS
        \/ NextBT \/ NextON \/ NextDB

Spec == Init /\ [][Next]_vars

====
